---- MODULE Spec2Model ----
(***************************************************************************)
(* The auto-sync engine of vscode-webdav (AutoSyncManager, FileOperations, *)
(* PathUtils, SyncConfiguration) as a state machine.  One step of the     *)
(* model is one run-to-completion turn of the JavaScript event loop: a     *)
(* watcher callback, a timer callback, or the continuation of an async     *)
(* function after one awaited call returned, up to its next await.         *)
(***************************************************************************)
EXTENDS Integers, Sequences, FiniteSets, TLC

\* ---------------------------------------------------------------- bounds
MaxEvents   == 2   \* file-system events delivered by the watchers
MaxTasks    == 2   \* async executions (batches, full syncs) in flight at once
MaxFaults   == 1   \* remote or client calls answered with an unexpected failure
MaxFullSyncs == 1  \* syncNow invocations
MaxRemovals == 1   \* files deleted while full syncs run
MaxOps      == 2   \* add, remove and update calls
MaxLifeEvents == 1 \* file-system events while configurations are paused or removed
MaxStarts == 3      \* events, syncNow and registry calls of one run, together
MaxHandles == 3     \* client handles made
MaxRequests == 2    \* operations of the virtual filesystem
MaxConfigures == 2  \* calls of configureAuthForUri
MaxMixedEvents == 1 \* file-system events while full syncs run

\* ------------------------------------------------------------ path model
\* A path is the sequence of its segments; '/' is the empty sequence.
LocalRoot  == <<"repo">>
RemoteBase == <<"base">>

FileA      == <<"a.txt">>
FileB      == <<"d", "b.txt">>
FileLog    == <<"x.log">>
FileHidden == <<".env">>
FileDeep   == <<"d", "e", "y.log">>
RelPaths   == {FileA, FileB, FileLog, FileHidden, FileDeep}

\* The paths touched by the events of the general specifications.
EventPaths == {FileA, FileB, FileLog, FileHidden}

LogPattern == "**/*.log"

\* String facts about the segment names used above.
StartsWithDot(seg) == seg \in {".env", ".git"}
EndsWithLog(seg)   == seg \in {"x.log", "y.log"}
SegLen(seg) ==
    CASE seg = "repo"  -> 4
      [] seg = "base"  -> 4
      [] seg = "d"     -> 1
      [] seg = "a.txt" -> 5
      [] seg = "b.txt" -> 5
      [] seg = "x.log" -> 5
      [] seg = "y.log" -> 5
      [] seg = "e"     -> 1
      [] seg = ".env"  -> 4
      [] seg = ".."    -> 2
      [] OTHER         -> 3

RECURSIVE StrLen(_)
\* Length of the string "/s1/s2/...": what String.length sees.
StrLen(p) == IF p = <<>> THEN 0 ELSE 1 + SegLen(Head(p)) + StrLen(Tail(p))

RECURSIVE CommonPrefixLen(_, _)
CommonPrefixLen(a, b) ==
    IF a = <<>> \/ b = <<>> \/ Head(a) # Head(b) THEN 0
    ELSE 1 + CommonPrefixLen(Tail(a), Tail(b))

\* PathUtils.getRelativePath: path.relative(basePath, targetPath).
GetRelativePath(basePath, targetPath) ==
    LET n == CommonPrefixLen(basePath, targetPath)
    IN  [k \in 1..(Len(basePath) - n) |-> ".."]
        \o SubSeq(targetPath, n + 1, Len(targetPath))

RECURSIVE Resolve(_, _)
\* path.join's normalisation: a ".." removes the segment before it.
Resolve(done, rest) ==
    IF rest = <<>> THEN done
    ELSE IF Head(rest) = ".." /\ done # <<>> /\ done[Len(done)] # ".."
         THEN Resolve(SubSeq(done, 1, Len(done) - 1), Tail(rest))
         ELSE Resolve(Append(done, Head(rest)), Tail(rest))

\* PathUtils.joinPaths
JoinPaths(a, b) == Resolve(<<>>, a \o b)

\* PathUtils.toRemotePath: the result is a path below '/', so "starts with /"
\* is the representation itself.
ToRemotePath(localPath, localBase, remoteBase) ==
    JoinPaths(remoteBase, GetRelativePath(localBase, localPath))

\* A remoteBase string: a URI 'scheme//host/path/' or a bare path.
Uri(scheme, host, p) == [uri |-> TRUE, scheme |-> scheme, host |-> host, path |-> p]
BarePath(p) == [uri |-> FALSE, scheme |-> "", host |-> "", path |-> p]

\* The segments path.join sees in the string: it splits at '/' and drops the
\* empty segment between the two slashes after the scheme.
StringSegments(base) ==
    IF base.uri THEN <<base.scheme, base.host>> \o base.path ELSE base.path

\* PathUtils.toRemotePath of the version that parses its third argument:
\* new URL(webdavUrl).pathname, and the string itself when new URL throws.
ToRemotePathOfUrl(localPath, localBase, webdavUrl) ==
    IF webdavUrl.uri
    THEN JoinPaths(webdavUrl.path, GetRelativePath(localBase, localPath))
    ELSE JoinPaths(StringSegments(webdavUrl), GetRelativePath(localBase, localPath))

\* PathUtils.getParentPath
GetParentPath(p) == IF p = <<>> THEN <<>> ELSE SubSeq(p, 1, Len(p) - 1)

\* PathUtils.getAllParents: every proper non-root prefix, root first.
GetAllParents(p) == [k \in 1..(Len(p) - 1) |-> SubSeq(p, 1, k)]

\* A matcher whose '**' spans no directory.
MinimatchTopLevel(relPath, pattern) ==
    CASE pattern = LogPattern ->
             /\ Len(relPath) = 1
             /\ EndsWithLog(relPath[1])
             /\ ~StartsWithDot(relPath[1])
      [] OTHER -> FALSE

\* minimatch(path, pattern) for the patterns of the model.
Minimatch(relPath, pattern) ==
    CASE pattern = LogPattern ->
             /\ relPath # <<>>
             /\ EndsWithLog(relPath[Len(relPath)])
             /\ \A k \in 1..Len(relPath) : ~StartsWithDot(relPath[k])
      [] OTHER -> FALSE

\* PathUtils.isExcluded
IsExcluded(relPath, excludePatterns) ==
    \E k \in 1..Len(excludePatterns) : Minimatch(relPath, excludePatterns[k])

\* path.basename(filePath).startsWith('.')
IsHiddenFile(filePath) == filePath # <<>> /\ StartsWithDot(filePath[Len(filePath)])


\* ---------------------------------------------------------------- state
ConfigIds  == {"A", "B"}
EventTypes == {"create", "change", "delete"}

VARIABLES
    configurations,  \* AutoSyncManager.configurations: id -> SyncConfiguration
    watchers,        \* AutoSyncManager.watchers: the ids that have a watcher
    pendingChanges,  \* AutoSyncManager.pendingChanges: id -> entries, in Map order
    debounceTimers,  \* AutoSyncManager.debounceTimers: id -> timer handle
    tasks,           \* async executions of processPendingChanges / syncNow
    now,             \* Date.now()
    localFiles,      \* id -> relative path -> content version (0: no file)
    remoteFiles,     \* remote path -> content version (0: no file)
    remoteDirs,      \* remote directories that exist
    nEvents,         \* events delivered so far
    nFaults,         \* unexpected failures answered so far
    nFull,           \* syncNow invocations so far
    observed,        \* id -> the qualifying events seen: `at` the time of the last one,
                     \* `kinds` the last kind per path, `window` their number per path
                     \* since the queue was last drained, `drained` that number for
                     \* the batch that started last
    putCalls,        \* remote path -> putFileContents calls issued
    finished,        \* the execution that ended last
    fired,           \* _onDidChangeConfiguration.fire() calls of the last step
    unnotified,      \* the last step changed a configuration or the registry
                     \* after its last fire(), or without one
    store,           \* workspace setting webdav.autoSync.configurations
    ops,             \* add/remove/update calls awaiting config.update, oldest first
    nOps,            \* add/remove/update calls so far
    thrown,          \* the error of the call that was rejected last
    call,            \* a call of a PathUtils function: arguments and result
    connections,     \* connections: base URI -> the cached client handle (0: no entry)
    clients,         \* the client handles made so far (`made`), and per base URI the
                     \* handles `created` and `returned` since its entry was last deleted
    requests,        \* executions of WebDAVFileSystemProvider.forConnection
    auth             \* the stored authentication settings of the base URI (`version`),
                     \* calls of configureAuthForUri at their prompts (`configuring`),
                     \* and the settings each client handle was created from (`of`)

vars == <<configurations, watchers, pendingChanges, debounceTimers, tasks, now,
          localFiles, remoteFiles, remoteDirs, nEvents, nFaults, nFull,
          observed, putCalls, finished, fired, unnotified, store, ops, nOps,
          thrown, call,
                   connections, clients,
                   requests, auth>>

NoError == [kind |-> "undefined"]
NoCall  == [fn |-> "none"]
NoTime  == -1

\* A URL string 'scheme//host/path'.
Url(scheme, host, p) == [scheme |-> scheme, host |-> host, path |-> p]

\* The WebDAV URLs of the configurations: two spellings of the scheme, two
\* hosts, with and without a path.
ClientUrls ==
    { Url(scheme, host, p) : scheme \in {"webdavs:", "https:"},
                             host \in {"host", "other"},
                             p \in {<<>>, <<"base">>} }

\* webdavUrl.replace(/^webdav/i, "http")
HttpScheme(scheme) ==
    CASE scheme = "webdav:"  -> "http:"
      [] scheme = "webdavs:" -> "https:"
      [] OTHER -> scheme

\* SyncConfiguration.getWebDAVBaseUrl: the URL with its path, as an http(s) URL.
GetWebDAVBaseUrl(webdavUrl) == [webdavUrl EXCEPT !.scheme = HttpScheme(@)]

\* vscode.Uri.parse(webdavUrl).with({ path: "", fragment: "", query: "" }).toString()
BaseUriOf(webdavUrl) == [webdavUrl EXCEPT !.path = <<>>]

BaseUris == { BaseUriOf(GetWebDAVBaseUrl(u)) : u \in ClientUrls }

\* `connections` before the first client is asked for, and the record of the
\* handles: none made, none created or returned for any base URI.
NoConnections == [b \in BaseUris |-> 0]
NoClients ==
    [ made |-> 0, handle |-> 0,
      since |-> [b \in BaseUris |-> [created |-> 0, returned |-> {}]] ]

\* A slot for an execution of forConnection, and the settings store before
\* any call of configureAuthForUri.
IdleRequest ==
    [ pc |-> "idle", handle |-> 0, retries |-> 0, outcome |-> "none",
      uri |-> <<>>, create |-> FALSE, overwrite |-> FALSE, put |-> 0 ]
NoAuth == [version |-> 0, configuring |-> 0, of |-> <<>>]

\* new SyncConfiguration(data); localPath and remotePath are the roots of the pair.
SyncConfiguration(data) ==
    [ enabled         |-> data.enabled,
      syncOnDelete    |-> data.syncOnDelete,
      syncHidden      |-> data.syncHidden,
      debounceMs      |-> data.debounceMs,
      excludePatterns |-> data.excludePatterns,
      localPath       |-> LocalRoot,
      remotePath      |-> RemoteBase,
      status          |-> "idle",
      lastSyncTime    |-> NoTime,
      lastError       |-> NoError,
      filesInQueue    |-> 0 ]

\* SyncConfiguration.toJSON(): the declarative fields.
ToJSON(config) ==
    [ enabled         |-> config.enabled,
      syncOnDelete    |-> config.syncOnDelete,
      syncHidden      |-> config.syncHidden,
      debounceMs      |-> config.debounceMs,
      excludePatterns |-> config.excludePatterns,
      localPath       |-> config.localPath,
      remotePath      |-> config.remotePath ]

\* debounceMs values, in units of half the longest debounce interval.
DebounceChoices == {0, 2}

\* The configurations the engine is started with: hidden files are skipped
\* and '**/*.log' is excluded, so both filters of queueChange have a path to
\* reject (FileHidden, FileLog) and two paths to accept (FileA, FileB).
ConfigurationData ==
    [ enabled : {TRUE}, syncOnDelete : BOOLEAN, syncHidden : {FALSE},
      debounceMs : DebounceChoices, excludePatterns : {<<LogPattern>>} ]

IdleTask ==
    [ kind |-> "none", id |-> "", pc |-> "idle", items |-> <<>>, i |-> 0, anc |-> 0,
      content |-> 0, successCount |-> 0, errorCount |-> 0, attempted |-> <<>>,
      held |-> <<>> ]

NothingFinished ==
    [ kind |-> "none", id |-> "", outcome |-> "none", items |-> <<>>, successCount |-> 0,
      errorCount |-> 0, attempted |-> <<>>, error |-> NoError, at |-> NoTime ]

RemotePaths == { ToRemotePath(LocalRoot \o r, LocalRoot, RemoteBase) : r \in RelPaths }

\* A timer handle: "none" (no map entry), "pending", or "fired" (a stale handle).
NoTimer == [state |-> "none", deadline |-> 0]

\* The state after the constructor loaded one enabled configuration "A" from
\* `data`, and startSync registered its watcher and its empty queue; `tree` is
\* what the local directory of "A" holds.
Started(data, tree) ==
    /\ configurations = [id \in {"A"} |-> SyncConfiguration(data)]
    /\ watchers = {"A"}
    /\ pendingChanges = [id \in {"A"} |-> <<>>]
    /\ debounceTimers = [id \in ConfigIds |-> NoTimer]
    /\ tasks = [s \in 1..MaxTasks |-> IdleTask]
    /\ now = 0
    /\ localFiles = [id \in ConfigIds |-> IF id = "A" THEN tree
                                          ELSE [r \in RelPaths |-> 0]]
    /\ remoteFiles = [rp \in RemotePaths |-> 0]
    /\ remoteDirs = {RemoteBase}
    /\ nEvents = 0
    /\ nFaults = 0
    /\ nFull = 0
    /\ observed = [id \in ConfigIds |->
                      [at |-> NoTime, kinds |-> [r \in RelPaths |-> "none"],
                       window |-> [r \in RelPaths |-> 0],
                       drained |-> [r \in RelPaths |-> 0]]]
    /\ putCalls = [rp \in RemotePaths |-> 0]
    /\ finished = NothingFinished
    /\ fired = 0
    /\ unnotified = FALSE
    /\ store = [id \in {"A"} |-> ToJSON(SyncConfiguration(data))]
    /\ ops = <<>>
    /\ nOps = 0
    /\ thrown = NoError
    /\ call = NoCall
    /\ connections = NoConnections
    /\ clients = NoClients
    /\ requests = [s \in 1..MaxRequests |-> IdleRequest]
    /\ auth = NoAuth

EmptyTree == [r \in RelPaths |-> 0]
FullTree  == [r \in RelPaths |-> 1]

Init == \E data \in ConfigurationData : Started(data, EmptyTree)

\* ------------------------------------------------------ the remote store
\* What the WebDAV server answers; status 0 is success.
ParentExists(dirs, p) == GetParentPath(p) = <<>> \/ GetParentPath(p) \in dirs

RemoteStat(dirs, files, p) ==
    IF p \in dirs \/ (p \in DOMAIN files /\ files[p] # 0) THEN 0 ELSE 404

RemoteCreateDirectory(dirs, p) ==
    IF p \in dirs THEN [status |-> 405, dirs |-> dirs]
    ELSE IF ~ParentExists(dirs, p) THEN [status |-> 409, dirs |-> dirs]
    ELSE [status |-> 0, dirs |-> dirs \cup {p}]

RemotePutFileContents(dirs, files, p, content) ==
    IF ~ParentExists(dirs, p) THEN [status |-> 409, files |-> files]
    ELSE [status |-> 0, files |-> [files EXCEPT ![p] = content]]

RemoteDeleteFile(files, p) ==
    IF files[p] = 0 THEN [status |-> 404, files |-> files]
    ELSE [status |-> 0, files |-> [files EXCEPT ![p] = 0]]

\* ------------------------------------------------------------ queueChange
\* Mutant of MapSet: the entry is added without looking for the key.
MapSetAppends(changes, filePath, change) == Append(changes, change)

\* Mutant of MapSet: an existing key keeps its old value.
MapSetKeepsFirst(changes, filePath, change) ==
    IF \E k \in 1..Len(changes) : changes[k].path = filePath
    THEN changes
    ELSE Append(changes, change)

\* Map.set on the pending changes of one configuration: an existing key keeps
\* its position and takes the new value, a new key goes last.
MapSet(changes, filePath, change) ==
    IF \E k \in 1..Len(changes) : changes[k].path = filePath
    THEN [k \in 1..Len(changes) |->
              IF changes[k].path = filePath THEN change ELSE changes[k]]
    ELSE Append(changes, change)

\* Mutant of RestartTimer: a pending timer is cleared and no new one is set.
RestartTimerClearsOnly(timer, deadline) ==
    IF timer.state = "pending" THEN [state |-> "none", deadline |-> 0]
    ELSE [state |-> "pending", deadline |-> deadline]

\* Mutant of RestartTimer: a timer that is pending is left running.
RestartTimerKeepsPending(timer, deadline) ==
    IF timer.state = "pending" THEN timer
    ELSE [state |-> "pending", deadline |-> deadline]

\* clearTimeout(existingTimer) and setTimeout(..., debounceMs)
RestartTimer(timer, deadline) == [state |-> "pending", deadline |-> deadline]

\* Mutant of Qualifies: a change event is taken only when syncOnSave is set.
QualifiesOnSave(config, filePath, type) ==
    /\ config.enabled
    /\ ~IsExcluded(GetRelativePath(config.localPath, filePath), config.excludePatterns)
    /\ ~(~config.syncHidden /\ IsHiddenFile(filePath))
    /\ ~(type = "delete" /\ ~config.syncOnDelete)
    /\ ~(type = "change" /\ "syncOnSave" \in DOMAIN config /\ ~config.syncOnSave)

\* The filters of queueChange, in the order of the code.
Qualifies(config, filePath, type) ==
    /\ config.enabled
    /\ ~IsExcluded(GetRelativePath(config.localPath, filePath), config.excludePatterns)
    /\ ~(~config.syncHidden /\ IsHiddenFile(filePath))
    /\ ~(type = "delete" /\ ~config.syncOnDelete)

\* What the file system holds after the operation that raised the event.
Written(id, rel, type) ==
    [localFiles EXCEPT ![id][rel] = IF type = "delete" THEN 0 ELSE nEvents + 2]

\* The watcher of id reports `type` on LocalRoot/rel; its callback is queueChange.
QueueChange(id, rel, type) ==
    LET filePath == LocalRoot \o rel
        change   == [path |-> filePath, type |-> type, timestamp |-> now]
    IN
    /\ id \in watchers
    /\ nEvents' = nEvents + 1
    /\ localFiles' = Written(id, rel, type)
    /\ IF id \in DOMAIN configurations /\ id \in DOMAIN pendingChanges
          /\ Qualifies(configurations[id], filePath, type)
       THEN LET changes == MapSet(pendingChanges[id], filePath, change) IN
            /\ pendingChanges' = [pendingChanges EXCEPT ![id] = changes]
            /\ configurations' =
                   [configurations EXCEPT ![id].filesInQueue = Len(changes)]
            /\ debounceTimers' = [debounceTimers EXCEPT ![id] =
                   RestartTimer(@, now + configurations[id].debounceMs)]
            /\ observed' = [observed EXCEPT ![id].at = now, ![id].kinds[rel] = type,
                                             ![id].window[rel] = @ + 1]
            /\ fired' = 1
            /\ unnotified' = FALSE
       ELSE /\ UNCHANGED <<pendingChanges, configurations, debounceTimers, observed>>
            /\ fired' = 0
            /\ unnotified' = FALSE
    /\ UNCHANGED <<watchers, tasks, now, remoteFiles, remoteDirs, nFaults, nFull,
                   putCalls, finished,
                   store, ops, nOps, thrown, call,
                   connections, clients,
                   requests, auth>>

\* Time passes. The engine observes time only through its timers, so the
\* clock is advanced only while some timer has not reached its deadline.
Tick ==
    /\ \E id \in ConfigIds : /\ debounceTimers[id].state = "pending"
                             /\ debounceTimers[id].deadline > now
    /\ now' = now + 1
    /\ fired' = 0
    /\ unnotified' = FALSE
    /\ UNCHANGED <<configurations, watchers, pendingChanges, debounceTimers, tasks,
                   localFiles, remoteFiles, remoteDirs, nEvents, nFaults, nFull,
                   observed, putCalls, finished,
                   store, ops, nOps, thrown, call,
                   connections, clients,
                   requests, auth>>

\* ------------------------------------------------- the upload pipeline
RemotePathOf(config, localPath) ==
    ToRemotePath(localPath, config.localPath, config.remotePath)

\* ensureRemoteDirectory's skip test: equal to the base path, or a shorter string.
SkipsParent(parent, basePath) ==
    parent = basePath \/ StrLen(parent) < StrLen(basePath)

\* Mutant of NextParent: the deepest parent that is not skipped comes first.
NextParentDeepest(parents, basePath, from) ==
    LET open == { k \in from..Len(parents) : ~SkipsParent(parents[k], basePath) }
    IN  IF open = {} THEN 0 ELSE CHOOSE k \in open : \A j \in open : k >= j

\* The first parent from position `from` on that is not skipped; 0 when none is left.
NextParent(parents, basePath, from) ==
    LET open == { k \in from..Len(parents) : ~SkipsParent(parents[k], basePath) }
    IN  IF open = {} THEN 0 ELSE CHOOSE k \in open : \A j \in open : k <= j

\* uploadFile up to its first await: the stat of the first parent to ensure, or
\* the read of the local file.
UploadFile(t, config) ==
    LET remotePath == RemotePathOf(config, t.items[t.i].path)
        k == NextParent(GetAllParents(remotePath), config.remotePath, 1)
    IN  IF GetParentPath(remotePath) # <<>> /\ k > 0
        THEN [t EXCEPT !.pc = "stat", !.anc = k]
        ELSE [t EXCEPT !.pc = "read", !.anc = 0]

\* ensureRemoteDirectory after parent t.anc is settled.
EnsureNext(t, config) ==
    LET remotePath == RemotePathOf(config, t.items[t.i].path)
        k == NextParent(GetAllParents(remotePath), config.remotePath, t.anc + 1)
    IN  IF k > 0 THEN [t EXCEPT !.pc = "stat", !.anc = k]
                 ELSE [t EXCEPT !.pc = "read", !.anc = 0]

\* syncFile is called for entry t.i: it awaits createClientForConfig first.
SyncFile(t) ==
    [t EXCEPT !.pc = "client", !.anc = 0, !.content = 0,
              !.attempted = Append(@, t.items[t.i].path)]

\* syncNow calls uploadFile for file t.i.
FullUpload(t, config) ==
    UploadFile([t EXCEPT !.content = 0,
                         !.attempted = Append(@, t.items[t.i].path)], config)


\* --------------------------------------------- outcomes of an execution
Failure(kind, path, status) == [kind |-> kind, path |-> path, status |-> status]

\* Mutant of FailedAtError: the position is the number of completed uploads.
FailedAtErrorOffByOne(completed, total, file, cause) ==
    [kind |-> "failedAt", position |-> completed, total |-> total,
     path |-> file, status |-> cause.status]

\* The Error syncNow throws for the file it failed on:
\* `Failed at file ${completed + 1}/${files.length}: ${file}\n${errorMsg}`
FailedAtError(completed, total, file, cause) ==
    [kind |-> "failedAt", position |-> completed + 1, total |-> total,
     path |-> file, status |-> cause.status]

Summary(t, outcome, error) ==
    [ kind |-> t.kind, id |-> t.id, outcome |-> outcome, items |-> t.items,
      successCount |-> t.successCount, errorCount |-> t.errorCount,
      attempted |-> t.attempted, error |-> error, at |-> now ]

\* Mutant of BatchStatus: a batch without errors leaves the status as it is.
BatchStatusStaysSyncing(errorCount) == IF errorCount > 0 THEN "error" ELSE "syncing"

\* Mutant of BatchStatus: the batch always ends 'idle'.
BatchStatusIdle(errorCount) == "idle"

\* errorCount > 0 ? 'error' : 'idle'
BatchStatus(errorCount) == IF errorCount > 0 THEN "error" ELSE "idle"

\* Mutant of LoopContinues: the loop is left after the first error.
LoopStopsOnError(t) == t.i < Len(t.items) /\ t.errorCount = 0

\* The for-of loops of processPendingChanges and syncNow have a next element.
LoopContinues(t) == t.i < Len(t.items)

\* A catch block that calls syncFile again for the entry that failed.
BatchEntryDoneRetries(t, config, err) ==
    LET failed == err.kind # "undefined"
        t1 == IF failed THEN [t EXCEPT !.errorCount = @ + 1]
                        ELSE [t EXCEPT !.successCount = @ + 1]
        c1 == IF failed THEN [config EXCEPT !.lastError = err] ELSE config
    IN  IF failed
        THEN [ task |-> SyncFile(t), config |-> c1,
               finished |-> finished, fired |-> 0 ]
        ELSE IF LoopContinues(t1)
        THEN [ task |-> SyncFile([t1 EXCEPT !.i = @ + 1]), config |-> c1,
               finished |-> finished, fired |-> 0 ]
        ELSE [ task |-> IdleTask, fired |-> 1,
               config |-> [c1 EXCEPT !.status = BatchStatus(t1.errorCount),
                                     !.lastSyncTime = now,
                                     !.lastError = IF t1.errorCount = 0
                                                   THEN NoError ELSE @],
               finished |-> Summary(t1, "completed", NoError) ]

\* processPendingChanges after the await of entry t.i settled: the catch block
\* when it rejected, the next iteration or the end of the batch.
BatchEntryDone(t, config, err) ==
    LET failed == err.kind # "undefined"
        t1 == IF failed THEN [t EXCEPT !.errorCount = @ + 1]
                        ELSE [t EXCEPT !.successCount = @ + 1]
        c1 == IF failed THEN [config EXCEPT !.lastError = err] ELSE config
    IN  IF LoopContinues(t1)
        THEN [ task |-> SyncFile([t1 EXCEPT !.i = @ + 1]), config |-> c1,
               finished |-> finished, fired |-> 0 ]
        ELSE [ task |-> IdleTask, fired |-> 1,
               config |-> [c1 EXCEPT !.status = BatchStatus(t1.errorCount),
                                     !.lastSyncTime = now,
                                     !.lastError = IF t1.errorCount = 0
                                                   THEN NoError ELSE @],
               finished |-> Summary(t1, "completed", NoError) ]

\* An outer catch that rethrows without telling the listeners.
FullRejectedSilent(t, config, error) ==
    [ task |-> IdleTask, fired |-> 0,
      config |-> [config EXCEPT !.status = "error", !.lastError = error],
      finished |-> Summary(t, "rejected", error) ]

\* The outer catch of syncNow's execute: status 'error', lastError, rethrow.
FullRejected(t, config, error) ==
    [ task |-> IdleTask, fired |-> 1,
      config |-> [config EXCEPT !.status = "error", !.lastError = error],
      finished |-> Summary(t, "rejected", error) ]

\* Mutant of FullCompleted: lastSyncTime is left as it was.
FullCompletedKeepsTime(t, config) ==
    [ task |-> IdleTask, fired |-> 1,
      config |-> [config EXCEPT !.status = "idle", !.lastError = NoError],
      finished |-> Summary(t, "completed", NoError) ]

\* Mutant of FullCompleted: the full sync also resets filesInQueue.
FullCompletedResetsQueue(t, config) ==
    [ task |-> IdleTask, fired |-> 1,
      config |-> [config EXCEPT !.status = "idle", !.lastSyncTime = now,
                                !.lastError = NoError, !.filesInQueue = 0],
      finished |-> Summary(t, "completed", NoError) ]

\* The end of syncNow's loop: status 'idle', lastSyncTime, lastError cleared.
FullCompleted(t, config) ==
    [ task |-> IdleTask, fired |-> 1,
      config |-> [config EXCEPT !.status = "idle", !.lastSyncTime = now,
                                !.lastError = NoError],
      finished |-> Summary(t, "completed", NoError) ]

\* syncNow after the uploadFile of file t.i settled.
FullEntryDone(t, config, err) ==
    IF err.kind # "undefined"
    THEN FullRejected(t, config,
             FailedAtError(t.successCount, Len(t.items), t.items[t.i].path, err))
    ELSE LET t1 == [t EXCEPT !.successCount = @ + 1] IN
         IF LoopContinues(t1)
         THEN [ task |-> FullUpload([t1 EXCEPT !.i = @ + 1], config),
                config |-> config, finished |-> finished, fired |-> 0 ]
         ELSE FullCompleted(t1, config)

EntryDone(t, config, err) ==
    IF t.kind = "batch" THEN BatchEntryDone(t, config, err)
                        ELSE FullEntryDone(t, config, err)

\* The SyncConfiguration object an execution holds: the one the registry has
\* under its id, or the one it took from the registry before that was removed
\* or replaced.
ConfigOf(t) == IF t.held = <<>> THEN configurations[t.id] ELSE t.held[1]

\* Mutant of Settle: the result is written to every configuration.
SettleAll(s, r) ==
    /\ tasks' = [tasks EXCEPT ![s] = r.task]
    /\ configurations' = [id \in DOMAIN configurations |-> r.config]
    /\ finished' = r.finished
    /\ fired' = r.fired
    /\ unnotified' = (r.fired = 0 /\ r.config # ConfigOf(tasks[s]))

\* The execution in slot s goes on after an await with result r.
Settle(s, r) ==
    /\ IF tasks[s].held = <<>>
       THEN /\ tasks' = [tasks EXCEPT ![s] = r.task]
            /\ configurations' = [configurations EXCEPT ![tasks[s].id] = r.config]
       ELSE /\ tasks' = [tasks EXCEPT ![s] =
                   IF r.task.pc = "idle" THEN r.task
                   ELSE [r.task EXCEPT !.held = <<r.config>>]]
            /\ UNCHANGED configurations
    /\ finished' = r.finished
    /\ fired' = r.fired
    /\ unnotified' = (r.fired = 0 /\ r.config # ConfigOf(tasks[s]))

Continue(s, t) ==
    /\ tasks' = [tasks EXCEPT ![s] = t]
    /\ fired' = 0
    /\ unnotified' = FALSE
    /\ UNCHANGED <<configurations, finished>>

HasFreeSlot == \E s \in 1..MaxTasks : tasks[s].pc = "idle"
FreeSlot == CHOOSE s \in 1..MaxTasks :
                /\ tasks[s].pc = "idle"
                /\ \A j \in 1..MaxTasks : tasks[j].pc = "idle" => s <= j

\* ------------------------------------------------ processPendingChanges
\* Mutant of Cleared: the live set is left as it is.
ClearedNot(changes) == changes

\* changes.clear()
Cleared(changes) == <<>>

\* The timer callback: processPendingChanges(id) up to its first await.
ProcessPendingChanges(id) ==
    IF \/ id \notin DOMAIN configurations
       \/ id \notin DOMAIN pendingChanges
       \/ Len(pendingChanges[id]) = 0
    THEN /\ UNCHANGED <<configurations, pendingChanges, tasks, observed>>
         /\ fired' = 0
         /\ unnotified' = FALSE
    ELSE LET changesToProcess == pendingChanges[id] IN
         /\ HasFreeSlot
         /\ fired' = 1
         /\ unnotified' = (configurations[id].filesInQueue # 0)
         /\ observed' = [observed EXCEPT ![id].drained = observed[id].window,
                                         ![id].window = [r \in RelPaths |-> 0]]
         /\ pendingChanges' = [pendingChanges EXCEPT ![id] = Cleared(@)]
         /\ configurations' = [configurations EXCEPT ![id].status = "syncing",
                                                     ![id].filesInQueue = 0]
         /\ tasks' = [tasks EXCEPT ![FreeSlot] =
                SyncFile([IdleTask EXCEPT !.kind = "batch", !.id = id,
                                          !.items = changesToProcess, !.i = 1])]

TimerFires(id) ==
    /\ debounceTimers[id].state = "pending"
    /\ now >= debounceTimers[id].deadline
    /\ debounceTimers' = [debounceTimers EXCEPT ![id].state = "fired"]
    /\ ProcessPendingChanges(id)
    /\ UNCHANGED <<watchers, now, localFiles, remoteFiles, remoteDirs, nEvents,
                   nFaults, nFull, putCalls, finished,
                   store, ops, nOps, thrown, call,
                   connections, clients,
                   requests, auth>>


\* ------------------------------------------------------------- syncNow
\* readdir order of the model's tree.
WalkOrder == <<FileHidden, FileA, FileB, FileDeep, FileLog>>

\* walkDirectory: an entry is skipped, at every level, when it is hidden and
\* syncHidden is off or when its relative path is excluded.
WalkSkips(rel, excludePatterns, syncHidden) ==
    \E k \in 1..Len(rel) :
        \/ ~syncHidden /\ StartsWithDot(rel[k])
        \/ IsExcluded(SubSeq(rel, 1, k), excludePatterns)

WalkDirectory(files, excludePatterns, syncHidden) ==
    LET Found(rel) == files[rel] # 0 /\ ~WalkSkips(rel, excludePatterns, syncHidden)
        rels == SelectSeq(WalkOrder, Found)
    IN  [k \in 1..Len(rels) |->
            [path |-> LocalRoot \o rels[k], type |-> "change", timestamp |-> 0]]

\* syncNow(id) for a known, enabled configuration, up to its first await.
SyncNow(id) ==
    /\ nFull < MaxFullSyncs
    /\ id \in DOMAIN configurations
    /\ configurations[id].enabled
    /\ HasFreeSlot
    /\ nFull' = nFull + 1
    /\ fired' = 1
    /\ unnotified' = FALSE
    /\ configurations' = [configurations EXCEPT ![id].status = "syncing"]
    /\ tasks' = [tasks EXCEPT ![FreeSlot] =
           [IdleTask EXCEPT !.kind = "full", !.id = id, !.pc = "client"]]
    /\ UNCHANGED <<watchers, pendingChanges, debounceTimers, now, localFiles,
                   remoteFiles, remoteDirs, nEvents, nFaults, observed, putCalls,
                   finished,
                   store, ops, nOps, thrown, call,
                   connections, clients,
                   requests, auth>>

\* --------------------------------------------- continuations after await
\* await this.createClientForConfig(config) returned a client.
ClientReturns(s) ==
    LET t == tasks[s]
        config == ConfigOf(t)
    IN
    /\ t.pc = "client"
    /\ IF t.kind = "full"
       THEN Continue(s, [t EXCEPT !.pc = "walk"])
       ELSE IF t.items[t.i].type = "delete"
            THEN Continue(s, [t EXCEPT !.pc = "delete"])
            ELSE Continue(s, UploadFile(t, config))
    /\ UNCHANGED <<watchers, pendingChanges, debounceTimers, now, localFiles,
                   remoteFiles, remoteDirs, nEvents, nFaults, nFull, observed,
                   putCalls,
                   store, ops, nOps, thrown, call,
                   connections, clients,
                   requests, auth>>

\* await this.fileOps.walkDirectory(...)
WalkReturns(s) ==
    LET t == tasks[s]
        config == ConfigOf(t)
        files == WalkDirectory(localFiles[t.id], config.excludePatterns,
                               config.syncHidden)
        t1 == [t EXCEPT !.items = files, !.i = 1]
    IN
    /\ t.pc = "walk"
    /\ IF Len(files) = 0
       THEN Settle(s, FullCompleted(t1, config))
       ELSE Continue(s, FullUpload(t1, config))
    /\ UNCHANGED <<watchers, pendingChanges, debounceTimers, now, localFiles,
                   remoteFiles, remoteDirs, nEvents, nFaults, nFull, observed,
                   putCalls,
                   store, ops, nOps, thrown, call,
                   connections, clients,
                   requests, auth>>

\* The parent directory ensureRemoteDirectory is working on.
CurrentParent(t) ==
    GetAllParents(RemotePathOf(ConfigOf(t), t.items[t.i].path))[t.anc]

\* await client.stat(parent): a rejection leads to createDirectory.
StatReturns(s) ==
    LET t == tasks[s] IN
    /\ t.pc = "stat"
    /\ IF RemoteStat(remoteDirs, remoteFiles, CurrentParent(t)) = 0
       THEN Continue(s, EnsureNext(t, ConfigOf(t)))
       ELSE Continue(s, [t EXCEPT !.pc = "mkdir"])
    /\ UNCHANGED <<watchers, pendingChanges, debounceTimers, now, localFiles,
                   remoteFiles, remoteDirs, nEvents, nFaults, nFull, observed,
                   putCalls,
                   store, ops, nOps, thrown, call,
                   connections, clients,
                   requests, auth>>

\* Mutant of CreateAccepted: a 405 is rethrown like every other status.
CreateAcceptedStrict(status) == status = 0

\* Mutant of CreateAccepted: every rejection of createDirectory is ignored.
CreateAcceptedAlways(status) == TRUE

\* ensureRemoteDirectory goes on after createDirectory: it resolved, or it was
\* rejected with 405 (`if (createError.status !== 405) throw`).
CreateAccepted(status) == status \in {0, 405}

\* await client.createDirectory(parent): 405 is ignored, any other rejection
\* is rethrown and uploadFile wraps it.
MkdirReturns(s) ==
    LET t == tasks[s]
        r == RemoteCreateDirectory(remoteDirs, CurrentParent(t))
    IN
    /\ t.pc = "mkdir"
    /\ remoteDirs' = r.dirs
    /\ IF CreateAccepted(r.status)
       THEN Continue(s, EnsureNext(t, ConfigOf(t)))
       ELSE Settle(s, EntryDone(t, ConfigOf(t),
                Failure("upload", t.items[t.i].path, r.status)))
    /\ UNCHANGED <<watchers, pendingChanges, debounceTimers, now, localFiles,
                   remoteFiles, nEvents, nFaults, nFull, observed, putCalls,
                   store, ops, nOps, thrown, call,
                   connections, clients,
                   requests, auth>>

\* await fs.promises.readFile(localPath); on success putFileContents is issued.
ReadReturns(s) ==
    LET t == tasks[s]
        config == ConfigOf(t)
        localPath == t.items[t.i].path
        content == localFiles[t.id][GetRelativePath(config.localPath, localPath)]
    IN
    /\ t.pc = "read"
    /\ IF content = 0
       THEN /\ Settle(s, EntryDone(t, config, Failure("upload", localPath, 0)))
            /\ UNCHANGED putCalls
       ELSE /\ Continue(s, [t EXCEPT !.pc = "put", !.content = content])
            /\ putCalls' = [putCalls EXCEPT ![RemotePathOf(config, localPath)] = @ + 1]
    /\ UNCHANGED <<watchers, pendingChanges, debounceTimers, now, localFiles,
                   remoteFiles, remoteDirs, nEvents, nFaults, nFull, observed,
                   store, ops, nOps, thrown, call,
                   connections, clients,
                   requests, auth>>

\* await client.putFileContents(remotePath, content, { overwrite: true });
\* syncFile then awaits getFileSize, syncNow goes on with the next file.
PutReturns(s) ==
    LET t == tasks[s]
        config == ConfigOf(t)
        localPath == t.items[t.i].path
        r == RemotePutFileContents(remoteDirs, remoteFiles,
                                   RemotePathOf(config, localPath), t.content)
    IN
    /\ t.pc = "put"
    /\ remoteFiles' = r.files
    /\ IF r.status # 0
       THEN Settle(s, EntryDone(t, config, Failure("upload", localPath, r.status)))
       ELSE IF t.kind = "batch"
            THEN Continue(s, [t EXCEPT !.pc = "size"])
            ELSE Settle(s, EntryDone(t, config, NoError))
    /\ UNCHANGED <<watchers, pendingChanges, debounceTimers, now, localFiles,
                   remoteDirs, nEvents, nFaults, nFull, observed, putCalls,
                   store, ops, nOps, thrown, call,
                   connections, clients,
                   requests, auth>>

\* await this.fileOps.getFileSize(localPath): fs.stat rejects when the file is gone.
SizeReturns(s) ==
    LET t == tasks[s]
        config == ConfigOf(t)
        localPath == t.items[t.i].path
        content == localFiles[t.id][GetRelativePath(config.localPath, localPath)]
    IN
    /\ t.pc = "size"
    /\ Settle(s, EntryDone(t, config,
           IF content = 0 THEN Failure("size", localPath, 0) ELSE NoError))
    /\ UNCHANGED <<watchers, pendingChanges, debounceTimers, now, localFiles,
                   remoteFiles, remoteDirs, nEvents, nFaults, nFull, observed,
                   putCalls,
                   store, ops, nOps, thrown, call,
                   connections, clients,
                   requests, auth>>

\* Mutant of DeleteOutcome: a 404 is rethrown like every other status.
DeleteOutcomeStrict(status, localPath) ==
    IF status = 0 THEN NoError ELSE Failure("delete", localPath, status)

\* syncFile's try/catch around deleteFile: `if (error.status !== 404) throw error`.
DeleteOutcome(status, localPath) ==
    IF status \in {0, 404} THEN NoError ELSE Failure("delete", localPath, status)

\* await this.fileOps.deleteFile(client, remotePath): 404 is ignored.
DeleteReturns(s) ==
    LET t == tasks[s]
        config == ConfigOf(t)
        localPath == t.items[t.i].path
        r == RemoteDeleteFile(remoteFiles, RemotePathOf(config, localPath))
    IN
    /\ t.pc = "delete"
    /\ remoteFiles' = r.files
    /\ Settle(s, EntryDone(t, config, DeleteOutcome(r.status, localPath)))
    /\ UNCHANGED <<watchers, pendingChanges, debounceTimers, now, localFiles,
                   remoteDirs, nEvents, nFaults, nFull, observed, putCalls,
                   store, ops, nOps, thrown, call,
                   connections, clients,
                   requests, auth>>

\* The awaited client or remote call is rejected with an unexpected status
\* (500) and leaves the server as it is.  A rejected stat leads to
\* createDirectory; a rejected client acquisition ends syncNow in its outer
\* catch; every other rejection is the failure of the current entry.
CallFails(s) ==
    LET t == tasks[s]
        config == ConfigOf(t)
    IN
    /\ t.pc \in {"client", "stat", "mkdir", "put", "delete"}
    /\ nFaults < MaxFaults
    /\ nFaults' = nFaults + 1
    /\ CASE t.pc = "stat" -> Continue(s, [t EXCEPT !.pc = "mkdir"])
         [] t.pc = "client" /\ t.kind = "full" ->
                Settle(s, FullRejected(t, config, Failure("client", <<>>, 500)))
         [] t.pc = "client" /\ t.kind = "batch" ->
                Settle(s, EntryDone(t, config,
                    Failure("client", t.items[t.i].path, 500)))
         [] t.pc = "delete" ->
                Settle(s, EntryDone(t, config,
                    DeleteOutcome(500, t.items[t.i].path)))
         [] t.pc = "mkdir" /\ CreateAccepted(500) ->
                Continue(s, EnsureNext(t, config))
         [] OTHER ->
                Settle(s, EntryDone(t, config,
                    Failure("upload", t.items[t.i].path, 500)))
    /\ UNCHANGED <<watchers, pendingChanges, debounceTimers, now, localFiles,
                   remoteFiles, remoteDirs, nEvents, nFull, observed, putCalls,
                   store, ops, nOps, thrown, call,
                   connections, clients,
                   requests, auth>>

\* ------------------------------------------------- registry operations
\* Map.delete and Map.set on a Map of the manager.
Without(f, id) == [i \in DOMAIN f \ {id} |-> f[i]]
With(f, id, v) == [i \in DOMAIN f \cup {id} |-> IF i = id THEN v ELSE f[i]]

\* A merge that builds the object anew, as the constructor would.
ObjectAssignFresh(config, data) ==
    [f \in DOMAIN config |->
        IF f \in DOMAIN data THEN data[f]
        ELSE IF f = "status" THEN "idle"
        ELSE IF f = "lastSyncTime" THEN NoTime
        ELSE IF f = "lastError" THEN NoError
        ELSE IF f = "filesInQueue" THEN 0
        ELSE config[f]]

\* Object.assign(config, data)
ObjectAssign(config, data) ==
    [f \in DOMAIN config |-> IF f \in DOMAIN data THEN data[f] ELSE config[f]]

\* A save that writes the enabled configurations only.
SnapshotEnabledOnly(configs) ==
    [id \in {i \in DOMAIN configs : configs[i].enabled} |-> ToJSON(configs[id])]

\* Array.from(this.configurations.values()).map(c => c.toJSON())
Snapshot(configs) == [id \in DOMAIN configs |-> ToJSON(configs[id])]

\* A stopSync that leaves the debounce timer running.
StopSyncKeepsTimer(id) ==
    /\ watchers' = watchers \ {id}
    /\ debounceTimers' = debounceTimers
    /\ pendingChanges' = Without(pendingChanges, id)

\* A stopSync that leaves the pending set in place.
StopSyncKeepsQueue(id) ==
    /\ watchers' = watchers \ {id}
    /\ debounceTimers' = [debounceTimers EXCEPT ![id] = NoTimer]
    /\ pendingChanges' = pendingChanges

\* stopSync(id): the watcher is disposed, the timer cleared, the queue dropped.
StopSync(id) ==
    /\ watchers' = watchers \ {id}
    /\ debounceTimers' = [debounceTimers EXCEPT ![id] = NoTimer]
    /\ pendingChanges' = Without(pendingChanges, id)

\* startSync(id): nothing for an unknown id or one that has a watcher.
StartSync(id) ==
    IF id \notin DOMAIN configurations \/ id \in watchers
    THEN UNCHANGED <<watchers, pendingChanges>>
    ELSE /\ watchers' = watchers \cup {id}
         /\ pendingChanges' = With(pendingChanges, id, <<>>)

\* The executions and calls that hold the object the registry has under id
\* keep it when the registry lets go of it.
KeepObject(x, id) ==
    IF x.id = id /\ x.held = <<>> THEN [x EXCEPT !.held = <<configurations[id]>>]
    ELSE x

\* A call waiting for config.update: saveConfigurations took `configs`.
SaveOp(kind, id, wasEnabled, configs) ==
    [ kind |-> kind, id |-> id, wasEnabled |-> wasEnabled,
      snapshot |-> Snapshot(configs), held |-> <<>> ]

\* updateConfiguration(id, data) up to the await of config.update.
UpdateConfiguration(id, data) ==
    /\ nOps < MaxOps
    /\ nOps' = nOps + 1
    /\ fired' = 0
    /\ unnotified' = IF id \in DOMAIN configurations
                     THEN ObjectAssign(configurations[id], data) # configurations[id]
                     ELSE FALSE
    /\ IF id \notin DOMAIN configurations
       THEN UNCHANGED <<configurations, ops>>
       ELSE LET configs == [configurations EXCEPT
                               ![id] = ObjectAssign(configurations[id], data)]
            IN  /\ configurations' = configs
                /\ ops' = Append(ops, SaveOp("update", id,
                                             configurations[id].enabled, configs))
    /\ UNCHANGED <<watchers, pendingChanges, debounceTimers, tasks, now, localFiles,
                   remoteFiles, remoteDirs, nEvents, nFaults, nFull, observed,
                   putCalls, finished, store, thrown, call,
                   connections, clients,
                   requests, auth>>

\* removeConfiguration(id) up to the await of config.update: stopSync has no
\* await of its own, so it and configurations.delete run before any timer or
\* watcher callback.
RemoveConfiguration(id) ==
    /\ nOps < MaxOps
    /\ nOps' = nOps + 1
    /\ fired' = 0
    /\ unnotified' = (id \in DOMAIN configurations)
    /\ IF id \notin DOMAIN configurations
       THEN UNCHANGED <<configurations, ops, watchers, debounceTimers,
                        pendingChanges, tasks>>
       ELSE LET configs == Without(configurations, id) IN
            /\ StopSync(id)
            /\ configurations' = configs
            /\ tasks' = [s \in 1..MaxTasks |-> KeepObject(tasks[s], id)]
            /\ ops' = Append([k \in 1..Len(ops) |-> KeepObject(ops[k], id)],
                             [SaveOp("remove", id, FALSE, configs)
                                 EXCEPT !.held = <<configurations[id]>>])
    /\ UNCHANGED <<now, localFiles, remoteFiles, remoteDirs, nEvents, nFaults,
                   nFull, observed, putCalls, finished, store, thrown, call,
                   connections, clients,
                   requests, auth>>

\* addConfiguration(data) up to the await of config.update; `id` is data.id.
\* Map.set puts the new object in the place of one that has the same id.
AddConfiguration(id, data) ==
    /\ nOps < MaxOps
    /\ nOps' = nOps + 1
    /\ fired' = 0
    /\ unnotified' = TRUE
    /\ LET configs == With(configurations, id, SyncConfiguration(data)) IN
       /\ configurations' = configs
       /\ tasks' = [s \in 1..MaxTasks |-> KeepObject(tasks[s], id)]
       /\ ops' = Append([k \in 1..Len(ops) |-> KeepObject(ops[k], id)],
                        SaveOp("add", id, FALSE, configs))
    /\ UNCHANGED <<watchers, pendingChanges, debounceTimers, now, localFiles,
                   remoteFiles, remoteDirs, nEvents, nFaults, nFull, observed,
                   putCalls, finished, store, thrown, call,
                   connections, clients,
                   requests, auth>>

\* The SyncConfiguration object a waiting call holds.
OpConfig(op) == IF op.held = <<>> THEN configurations[op.id] ELSE op.held[1]

\* config.update of the oldest waiting call is done (the settings service
\* writes in the order of the calls): saveConfigurations fires,
\* updateConfiguration stops or starts the sync when the flag was flipped,
\* and addConfiguration starts it when its object is enabled.
SaveReturns ==
    /\ ops # <<>>
    /\ LET op == Head(ops) IN
       /\ store' = op.snapshot
       /\ fired' = 1
       /\ unnotified' = FALSE
       /\ ops' = Tail(ops)
       /\ CASE op.kind = "update" /\ op.wasEnabled /\ ~OpConfig(op).enabled ->
                   StopSync(op.id)
            [] op.kind = "update" /\ ~op.wasEnabled /\ OpConfig(op).enabled ->
                   StartSync(op.id) /\ UNCHANGED debounceTimers
            [] op.kind = "add" /\ OpConfig(op).enabled ->
                   StartSync(op.id) /\ UNCHANGED debounceTimers
            [] OTHER -> UNCHANGED <<watchers, pendingChanges, debounceTimers>>
    /\ UNCHANGED <<configurations, tasks, now, localFiles, remoteFiles, remoteDirs,
                   nEvents, nFaults, nFull, observed, putCalls, finished, nOps,
                   thrown, call,
                   connections, clients,
                   requests, auth>>

\* A disabled configuration reported as a missing one.
SyncDisabledAsNotFound(id) == [kind |-> "notFound", id |-> id]

\* The errors syncNow throws before it does anything.
ConfigurationNotFound(id) == [kind |-> "notFound", id |-> id]
SyncDisabled(id) == [kind |-> "disabled", id |-> id]

\* syncNow(id) for an unknown id or a configuration that is not enabled.
SyncNowRejected(id) ==
    /\ nFull < MaxFullSyncs
    /\ IF id \in DOMAIN configurations THEN ~configurations[id].enabled ELSE TRUE
    /\ nFull' = nFull + 1
    /\ fired' = 0
    /\ unnotified' = FALSE
    /\ thrown' = IF id \notin DOMAIN configurations
                 THEN ConfigurationNotFound(id) ELSE SyncDisabled(id)
    /\ UNCHANGED <<configurations, watchers, pendingChanges, debounceTimers, tasks,
                   now, localFiles, remoteFiles, remoteDirs, nEvents, nFaults,
                   observed, putCalls, finished, store, ops, nOps, call,
                   connections, clients,
                   requests, auth>>

\* ------------------------------------------------------ specifications
\* A file-system event, of any kind on any path of the tree.
FsEvent(id, rel, type) ==
    /\ nEvents < MaxEvents
    /\ QueueChange(id, rel, type)

\* A file is deleted while full syncs run.
FileRemoved(id, rel) ==
    /\ nEvents < MaxRemovals
    /\ localFiles[id][rel] # 0
    /\ QueueChange(id, rel, "delete")

\* The continuations of uploadFile.
UploadReturns(s) ==
    \/ ClientReturns(s)
    \/ StatReturns(s)
    \/ MkdirReturns(s)
    \/ ReadReturns(s)
    \/ PutReturns(s)

\* The continuations of the upload and delete pipeline of syncFile.
Returns(s) ==
    \/ UploadReturns(s)
    \/ SizeReturns(s)
    \/ DeleteReturns(s)

\* The debounced engine: events, time, timers and batches; every call succeeds
\* as the server state allows.
Next ==
    \/ \E id \in ConfigIds, rel \in EventPaths, type \in EventTypes :
           FsEvent(id, rel, type)
    \/ Tick
    \/ \E id \in ConfigIds : TimerFires(id)
    \/ \E s \in 1..MaxTasks : Returns(s)

Spec == Init /\ [][Next]_vars

\* The same with calls that may fail unexpectedly.
NextFaulty ==
    \/ Next
    \/ \E s \in 1..MaxTasks : CallFails(s)

FaultyData == { d \in ConfigurationData : d.syncOnDelete /\ d.debounceMs # 0 }

InitFaulty == \E data \in FaultyData : Started(data, EmptyTree)

SpecFaulty == InitFaulty /\ [][NextFaulty]_vars

\* Full syncs of a directory that holds every file of the tree, under every
\* combination of the walk's filters, while files are deleted under the walk
\* (syncOnDelete is off: the deletions start no batch).
FullSyncData ==
    [ enabled : {TRUE}, syncOnDelete : {FALSE}, syncHidden : BOOLEAN,
      debounceMs : {0}, excludePatterns : {<<>>, <<LogPattern>>} ]

InitFull == \E data \in FullSyncData : Started(data, FullTree)

NextFull ==
    \/ \E id \in ConfigIds : SyncNow(id)
    \/ \E s \in 1..MaxTasks : WalkReturns(s)
    \/ \E s \in 1..MaxTasks : UploadReturns(s)
    \/ \E s \in 1..MaxTasks : CallFails(s)
    \/ \E id \in ConfigIds, rel \in RelPaths : FileRemoved(id, rel)

SpecFull == InitFull /\ [][NextFull]_vars

\* The scenario of a file, in the root or in a directory of the tree, that is
\* created and then modified twice.
Scenario == <<"create", "change", "change">>

ScenarioPaths == {FileA, FileB}

ScenarioEvent(rel) ==
    /\ nEvents < Len(Scenario)
    /\ nEvents > 0 => observed["A"].kinds[rel] # "none"
    /\ QueueChange("A", rel, Scenario[nEvents + 1])

NextScenario ==
    \/ \E rel \in ScenarioPaths : ScenarioEvent(rel)
    \/ Tick
    \/ \E id \in ConfigIds : TimerFires(id)
    \/ \E s \in 1..MaxTasks : UploadReturns(s) \/ SizeReturns(s)

SpecScenario == Init /\ [][NextScenario]_vars

\* A file-system event while full syncs run.
MixedEvent(id, rel, type) ==
    /\ nEvents < MaxMixedEvents
    /\ QueueChange(id, rel, type)

\* Two batches that upload the same file into directories the server does not
\* have yet: the file is changed twice, the debounce interval is 0, nothing is
\* excluded.
EnsureEvent ==
    /\ nEvents < MaxEvents
    /\ QueueChange("A", FileDeep, "change")

EnsureData ==
    [ enabled |-> TRUE, syncOnDelete |-> FALSE, syncHidden |-> FALSE,
      debounceMs |-> 0, excludePatterns |-> <<>> ]

DeepTree == [r \in RelPaths |-> IF r = FileDeep THEN 1 ELSE 0]

InitEnsure == Started(EnsureData, DeepTree)

NextEnsure ==
    \/ EnsureEvent
    \/ \E id \in ConfigIds : TimerFires(id)
    \/ \E s \in 1..MaxTasks : UploadReturns(s) \/ SizeReturns(s)

SpecEnsure == InitEnsure /\ [][NextEnsure]_vars

\* The same uploads, also by syncNow, with calls that may fail.
NextEnsureFaulty ==
    \/ MixedEvent("A", FileDeep, "change")
    \/ \E id \in ConfigIds : TimerFires(id)
    \/ \E s \in 1..MaxTasks : UploadReturns(s) \/ SizeReturns(s)
    \/ \E id \in ConfigIds : SyncNow(id)
    \/ \E s \in 1..MaxTasks : WalkReturns(s)
    \/ \E s \in 1..MaxTasks : CallFails(s)

SpecEnsureFaulty == InitEnsure /\ [][NextEnsureFaulty]_vars

\* Events and full syncs on a directory that holds every file of the tree,
\* with and without the exclusion pattern.
ExclusionData ==
    [ enabled : {TRUE}, syncOnDelete : {FALSE}, syncHidden : {FALSE},
      debounceMs : {0}, excludePatterns : {<<>>, <<LogPattern>>} ]

ExclusionPaths == {FileA, FileLog, FileDeep}

ExclusionTree == [rel \in RelPaths |-> IF rel \in ExclusionPaths THEN 1 ELSE 0]

InitExclusion == \E data \in ExclusionData : Started(data, ExclusionTree)

NextExclusion ==
    \/ \E rel \in ExclusionPaths : MixedEvent("A", rel, "change")
    \/ \E id \in ConfigIds : TimerFires(id)
    \/ \E id \in ConfigIds : SyncNow(id)
    \/ \E s \in 1..MaxTasks : WalkReturns(s)
    \/ \E s \in 1..MaxTasks : UploadReturns(s) \/ SizeReturns(s)

SpecExclusion == InitExclusion /\ [][NextExclusion]_vars

\* Debounced batches and full syncs of one configuration side by side, with
\* calls that may fail; the directory holds one file at the start.
MixedData == { d \in ConfigurationData : d.syncOnDelete /\ d.debounceMs = 0 }

SmallTree == [r \in RelPaths |-> IF r = FileB THEN 1 ELSE 0]

InitMixed == \E data \in MixedData : Started(data, SmallTree)

NextMixed ==
    \/ \E id \in ConfigIds, type \in EventTypes : MixedEvent(id, FileB, type)
    \/ \E id \in ConfigIds : TimerFires(id)
    \/ \E id \in ConfigIds : SyncNow(id)
    \/ \E s \in 1..MaxTasks : WalkReturns(s)
    \/ \E s \in 1..MaxTasks : Returns(s)
    \/ \E s \in 1..MaxTasks : CallFails(s)

SpecMixed == InitMixed /\ [][NextMixed]_vars

\* The engine while configurations are paused, resumed and removed and while
\* syncNow is called for ids that cannot be synced.
LifeEvent(id, rel) ==
    /\ nEvents < MaxLifeEvents
    /\ QueueChange(id, rel, "change")

LifecycleData == { d \in ConfigurationData : d.syncOnDelete /\ d.debounceMs # 0 }

InitLifecycle == \E data \in LifecycleData : Started(data, EmptyTree)

NextLifecycle ==
    \/ \E id \in ConfigIds, rel \in ScenarioPaths : LifeEvent(id, rel)
    \/ Tick
    \/ \E id \in ConfigIds : TimerFires(id)
    \/ \E s \in 1..MaxTasks : UploadReturns(s) \/ SizeReturns(s)
    \/ \E id \in ConfigIds, e \in BOOLEAN : UpdateConfiguration(id, [enabled |-> e])
    \/ \E id \in ConfigIds : RemoveConfiguration(id)
    \/ SaveReturns
    \/ \E id \in ConfigIds : SyncNowRejected(id)

SpecLifecycle == InitLifecycle /\ [][NextLifecycle]_vars

\* A configuration is paused or removed while its batches run and
\* further events wait behind the debounce timer.
StopData ==
    [ enabled : {TRUE}, syncOnDelete : {TRUE}, syncHidden : {FALSE},
      debounceMs : {0}, excludePatterns : {<<LogPattern>>} ]

InitStop == \E data \in StopData : Started(data, EmptyTree)

StopEvent(rel) ==
    /\ nEvents < MaxEvents
    /\ QueueChange("A", rel, "change")

NextStop ==
    \/ \E rel \in ScenarioPaths : StopEvent(rel)
    \/ \E id \in ConfigIds : TimerFires(id)
    \/ \E s \in 1..MaxTasks : UploadReturns(s) \/ SizeReturns(s)
    \/ UpdateConfiguration("A", [enabled |-> FALSE])
    \/ RemoveConfiguration("A")
    \/ SaveReturns

SpecStop == InitStop /\ [][NextStop]_vars

\* The operations of one run: events, syncNow calls and registry calls.
MayStart == nEvents + nFull + nOps < MaxStarts

\* A configuration whose filters are edited while events arrive and batches
\* run: it starts with no exclusion, hidden files and deletions synced.
UpdateData ==
    [ enabled : {TRUE}, syncOnDelete : {TRUE}, syncHidden : {TRUE},
      debounceMs : {0}, excludePatterns : {<<>>} ]

InitUpdate == \E data \in UpdateData : Started(data, EmptyTree)

\* The partial records updateConfiguration is called with.
UpdateChoices ==
    { [excludePatterns |-> <<LogPattern>>], [excludePatterns |-> <<>>],
      [syncOnDelete |-> FALSE], [syncHidden |-> FALSE], [enabled |-> FALSE],
      [enabled |-> TRUE] }

UpdateEvent(rel, type) ==
    /\ MayStart
    /\ nEvents < MaxEvents
    /\ QueueChange("A", rel, type)

NextUpdate ==
    \/ \E rel \in {FileLog, FileHidden}, type \in {"change", "delete"} :
           UpdateEvent(rel, type)
    \/ \E id \in ConfigIds : TimerFires(id)
    \/ \E s \in 1..MaxTasks :
           \/ ClientReturns(s)
           \/ ReadReturns(s)
           \/ PutReturns(s)
           \/ SizeReturns(s)
           \/ DeleteReturns(s)
    \/ \E id \in ConfigIds, data \in UpdateChoices :
           MayStart /\ UpdateConfiguration(id, data)
    \/ SaveReturns

SpecUpdate == InitUpdate /\ [][NextUpdate]_vars

\* The registry alone: configurations are added (under a new id or one that
\* is taken), paused, resumed and removed, the calls overlapping.
RegistryData ==
    [ enabled : BOOLEAN, syncOnDelete : {TRUE}, syncHidden : {FALSE},
      debounceMs : {2}, excludePatterns : {<<LogPattern>>} ]

InitRegistry ==
    \E data \in RegistryData : data.enabled /\ Started(data, EmptyTree)

NextRegistry ==
    \/ \E id \in ConfigIds, data \in RegistryData : AddConfiguration(id, data)
    \/ \E id \in ConfigIds, e \in BOOLEAN : UpdateConfiguration(id, [enabled |-> e])
    \/ \E id \in ConfigIds : RemoveConfiguration(id)
    \/ SaveReturns

SpecRegistry == InitRegistry /\ [][NextRegistry]_vars

\* The registry calls while events are queued and batches run, so that the
\* runtime fields of the configurations move between the saves.
NextPersist ==
    \/ NextRegistry
    \/ \E id \in ConfigIds : LifeEvent(id, FileA)
    \/ Tick
    \/ \E id \in ConfigIds : TimerFires(id)
    \/ \E s \in 1..MaxTasks :
           \/ ClientReturns(s)
           \/ ReadReturns(s)
           \/ PutReturns(s)
           \/ SizeReturns(s)

SpecPersist == InitRegistry /\ [][NextPersist]_vars

\* Everything that changes a configuration or the registry: events, batches,
\* full syncs, failing calls, and the registry calls.
NotifyData ==
    [ enabled : BOOLEAN, syncOnDelete : {TRUE}, syncHidden : {FALSE},
      debounceMs : {0}, excludePatterns : {<<LogPattern>>} ]

InitNotify == \E data \in NotifyData : data.enabled /\ Started(data, EmptyTree)

RegistryCall(id) ==
    /\ MayStart
    /\ \/ \E data \in NotifyData : AddConfiguration(id, data)
       \/ \E e \in BOOLEAN : UpdateConfiguration(id, [enabled |-> e])
       \/ RemoveConfiguration(id)

NextNotify ==
    \/ MayStart /\ MixedEvent("A", FileA, "change")
    \/ \E id \in ConfigIds : TimerFires(id)
    \/ \E s \in 1..MaxTasks :
           \/ ClientReturns(s)
           \/ ReadReturns(s)
           \/ PutReturns(s)
           \/ SizeReturns(s)
    \/ \E id \in ConfigIds : MayStart /\ SyncNow(id)
    \/ \E s \in 1..MaxTasks : WalkReturns(s)
    \/ \E s \in 1..MaxTasks : CallFails(s)
    \/ RegistryCall("A")
    \/ SaveReturns

SpecNotify == InitNotify /\ [][NextNotify]_vars

\* The path functions on their own: toRemotePath, in either of the two
\* versions of PathUtils the repository has, applied to a local path below a
\* local root and a remoteBase string.
LocalRoots == {LocalRoot, <<"home", "repo">>}
FileSrc == <<"src", "a.ts">>
RemoteBases ==
    { Uri("https:", "host", <<"base">>), Uri("https:", "host", <<>>),
      Uri("webdav:", "host", <<"base", "dav">>),
      BarePath(<<"base">>), BarePath(<<"base", "dav">>) }

PathArguments ==
    [ fn : {"toRemotePath"}, root : LocalRoots, rel : RelPaths \cup {FileSrc},
      base : RemoteBases, version : {"none"}, result : {<<>>} ]

InitPaths == \E data \in ConfigurationData : Started(data, EmptyTree)

CallToRemotePath(version, args) ==
    /\ call = NoCall
    /\ call' = [args EXCEPT
           !.version = version,
           !.result = IF version = "parsing"
                      THEN ToRemotePathOfUrl(args.root \o args.rel, args.root, args.base)
                      ELSE ToRemotePath(args.root \o args.rel, args.root,
                                        StringSegments(args.base))]
    /\ UNCHANGED <<configurations, watchers, pendingChanges, debounceTimers, tasks,
                   now, localFiles, remoteFiles, remoteDirs, nEvents, nFaults, nFull,
                   observed, putCalls, finished, fired, unnotified, store, ops,
                   nOps, thrown, connections, clients,
                   requests, auth>>

NextPaths ==
    \E version \in {"parsing", "joining"}, args \in PathArguments :
        CallToRemotePath(version, args)

SpecPaths == InitPaths /\ [][NextPaths]_vars


\* Uploads and deletions of one file two directories below the base, with
\* calls that may fail: the requests of the ensure-chain in their order.
OrderData ==
    [ enabled |-> TRUE, syncOnDelete |-> TRUE, syncHidden |-> FALSE,
      debounceMs |-> 0, excludePatterns |-> <<>> ]

InitOrder == Started(OrderData, DeepTree)

OrderEvent(type) ==
    /\ nEvents < MaxEvents
    /\ QueueChange("A", FileDeep, type)

NextOrder ==
    \/ \E type \in {"change", "delete"} : OrderEvent(type)
    \/ \E id \in ConfigIds : TimerFires(id)
    \/ \E s \in 1..MaxTasks : Returns(s)
    \/ \E s \in 1..MaxTasks : CallFails(s)

SpecOrder == InitOrder /\ [][NextOrder]_vars

\* The client factory the manager is constructed with in activate, as
\* createClientForConfig calls it, and the deletion of a cache entry.
\* getWebDAVClient(webdavUrl) has no await between its test of
\* connections[baseUri] and its read of it; a client handle is a number.
GetWebDAVClient(webdavUrl) ==
    LET baseUri == BaseUriOf(webdavUrl)
        miss    == connections[baseUri] = 0
        base    == IF miss THEN clients.made + 1 ELSE connections[baseUri]
        made    == IF miss THEN clients.made + 1 ELSE clients.made
        path    == webdavUrl.path # <<>>
        handle  == IF path THEN made + 1 ELSE base
        created == (IF miss THEN 1 ELSE 0) + (IF path THEN 1 ELSE 0)
    IN
    /\ connections' = [connections EXCEPT ![baseUri] = base]
    /\ clients' = [ made |-> IF path THEN made + 1 ELSE made,
                    handle |-> handle,
                    since |-> [clients.since EXCEPT
                        ![baseUri].created = @ + created,
                        ![baseUri].returned = @ \cup {handle}] ]

\* createClientForConfig(config): a configuration with embedded credentials
\* gets a client of its own, every other one asks the factory.
CreateClientForConfig(config) ==
    /\ clients.made < MaxHandles
    /\ IF config.embedded
       THEN /\ clients' = [clients EXCEPT !.made = @ + 1, !.handle = clients.made + 1]
            /\ UNCHANGED connections
       ELSE GetWebDAVClient(GetWebDAVBaseUrl(config.webdavUrl))
    /\ UNCHANGED <<configurations, watchers, pendingChanges, debounceTimers, tasks,
                   now, localFiles, remoteFiles, remoteDirs, nEvents, nFaults, nFull,
                   observed, putCalls, finished, fired, unnotified, store, ops,
                   nOps, thrown, call, requests, auth>>

\* configureAuthForUri(uriKey), and the 401 branch of forConnection:
\* delete connections[baseUri].
ConfigureAuthForUri(uriKey) ==
    /\ connections[uriKey] # 0
    /\ connections' = [connections EXCEPT ![uriKey] = 0]
    /\ clients' = [clients EXCEPT !.since[uriKey] = [created |-> 0, returned |-> {}]]
    /\ UNCHANGED <<configurations, watchers, pendingChanges, debounceTimers, tasks,
                   now, localFiles, remoteFiles, remoteDirs, nEvents, nFaults, nFull,
                   observed, putCalls, finished, fired, unnotified, store, ops,
                   nOps, thrown, call, requests, auth>>

ClientConfigs == [ webdavUrl : ClientUrls, embedded : BOOLEAN ]

InitClients == \E data \in ConfigurationData : Started(data, EmptyTree)

NextClients ==
    \/ \E config \in ClientConfigs : CreateClientForConfig(config)
    \/ \E uriKey \in BaseUris : ConfigureAuthForUri(uriKey)

SpecClients == InitClients /\ [][NextClients]_vars

\* ------------------------------------------- the virtual filesystem
\* The operations of WebDAVFileSystemProvider on one base URI: each runs in
\* forConnection, which takes the client from `connections` and handles the
\* status of a rejection; configureAuthForUri deletes the cache entry when it
\* is called and stores the new settings after its prompts.
ProviderBase == Url("https:", "host", <<>>)

\* this.createClient(baseUri) reads the stored settings when it is called.
CreatedFrom(a) == [a EXCEPT !.of = Append(@, a.version)]

\* connections[baseUri] = this.createClient(baseUri)
NewConnection ==
    /\ connections' = [connections EXCEPT ![ProviderBase] = clients.made + 1]
    /\ clients' = [clients EXCEPT !.made = @ + 1, !.handle = clients.made + 1,
                                  !.since[ProviderBase].created = @ + 1]

FirstIdleRequest(s) ==
    /\ requests[s].pc = "idle"
    /\ \A j \in 1..MaxRequests : requests[j].pc = "idle" => s <= j

EngineUnchanged ==
    UNCHANGED <<configurations, watchers, pendingChanges, debounceTimers, tasks,
                now, localFiles, remoteFiles, remoteDirs, nEvents, nFaults, nFull,
                observed, putCalls, finished, fired, unnotified, store, ops,
                nOps, thrown, call>>

\* forConnection up to its await of the action on the cached client.
ForConnection(s) ==
    /\ FirstIdleRequest(s)
    /\ IF connections[ProviderBase] = 0
       THEN NewConnection /\ auth' = CreatedFrom(auth)
       ELSE UNCHANGED <<connections, clients, auth>>
    /\ requests' = [requests EXCEPT ![s] =
           [IdleRequest EXCEPT !.pc = "action",
                               !.handle = connections'[ProviderBase]]]
    /\ EngineUnchanged

\* The error forConnection ends with for a status other than 401.
ErrorOfStatus(status) ==
    CASE status = 403 -> "NoPermissions"
      [] status = 404 -> "FileNotFound"
      [] status = 406 -> "Unavailable"
      [] OTHER -> "rethrown"

Statuses == {0, 401, 403, 404, 406, 500}

\* The action returned: with a result, or rejected with `status`.
ActionReturns(s, status) ==
    /\ requests[s].pc = "action"
    /\ IF status = 401
       THEN /\ connections' = [connections EXCEPT ![ProviderBase] = 0]
            /\ requests' = [requests EXCEPT ![s].pc = "warn"]
       ELSE /\ requests' = [requests EXCEPT ![s].pc = "done", ![s].outcome =
                   IF status = 0 THEN "ok" ELSE ErrorOfStatus(status)]
            /\ UNCHANGED connections
    /\ UNCHANGED <<clients, auth>>
    /\ EngineUnchanged

MayConfigure == auth.version + auth.configuring < MaxConfigures

\* showWarningMessage returned: 'Authenticate' calls configureAuthForUri,
\* which deletes the cache entry and goes to its prompts.
WarningAnswered(s, message) ==
    /\ requests[s].pc = "warn"
    /\ IF message = "Authenticate"
       THEN /\ MayConfigure
            /\ connections' = [connections EXCEPT ![ProviderBase] = 0]
            /\ auth' = [auth EXCEPT !.configuring = @ + 1]
            /\ requests' = [requests EXCEPT ![s].pc = "configure"]
       ELSE /\ requests' = [requests EXCEPT ![s].pc = "done",
                                            ![s].outcome = "NoPermissions"]
            /\ UNCHANGED <<connections, auth>>
    /\ UNCHANGED clients
    /\ EngineUnchanged

\* configureAuthForUri stored the settings and returned to forConnection,
\* which creates a client and calls the action again.
ConfigureReturns(s) ==
    /\ requests[s].pc = "configure"
    /\ NewConnection
    /\ auth' = CreatedFrom([auth EXCEPT !.version = @ + 1, !.configuring = @ - 1])
    /\ requests' = [requests EXCEPT ![s].pc = "retry", ![s].retries = @ + 1,
                                    ![s].handle = clients.made + 1]
    /\ EngineUnchanged

\* The action of the retry returned; every rejection is NoPermissions.
RetryReturns(s, status) ==
    /\ requests[s].pc = "retry"
    /\ requests' = [requests EXCEPT ![s].pc = "done", ![s].outcome =
           IF status = 0 THEN "ok" ELSE "NoPermissions"]
    /\ UNCHANGED <<connections, clients, auth>>
    /\ EngineUnchanged

\* The calls of configureAuthForUri that no forConnection waits for
\* (resetAuth, openWebdav).
CommandsConfiguring ==
    auth.configuring
        - Cardinality({ s \in 1..MaxRequests : requests[s].pc = "configure" })

\* resetAuth calls configureAuthForUri: the cache entry is deleted.
ConfigureAuthStarts ==
    /\ MayConfigure
    /\ connections' = [connections EXCEPT ![ProviderBase] = 0]
    /\ auth' = [auth EXCEPT !.configuring = @ + 1]
    /\ UNCHANGED <<clients, requests>>
    /\ EngineUnchanged

\* Its prompts are answered and state.update stored the settings.
ConfigureAuthEnds ==
    /\ CommandsConfiguring > 0
    /\ auth' = [auth EXCEPT !.version = @ + 1, !.configuring = @ - 1]
    /\ UNCHANGED <<connections, clients, requests>>
    /\ EngineUnchanged

\* What the server has at p: the type stat answers with, or nothing (404).
RemoteType(dirs, files, p) ==
    IF p \in dirs THEN "directory"
    ELSE IF p \in DOMAIN files /\ files[p] # 0 THEN "file"
    ELSE "missing"

\* throwIfWriteFileIsNotAllowed: the errors thrown inside the try block are
\* caught by its own catch, like the rejection of stat; the result is the
\* error the function throws, "none" when it returns.
ThrowIfWriteFileIsNotAllowed(type, options) ==
    LET thrownInTry ==
            IF type = "missing" THEN "FileNotFound"
            ELSE IF type = "directory" THEN "FileIsADirectory"
            ELSE IF ~options.overwrite THEN "FileExists"
            ELSE "none"
    IN  IF thrownInTry # "none" /\ ~options.create THEN "FileNotFound" ELSE "none"

WriteTargets == {RemoteBase, RemoteBase \o FileA}
WriteOptions == [create : BOOLEAN, overwrite : BOOLEAN]

\* writeFile(uri, content, options) up to the await of this.stat(uri) in
\* throwIfWriteFileIsNotAllowed.
WriteFile(s, uri, options) ==
    /\ FirstIdleRequest(s)
    /\ IF connections[ProviderBase] = 0
       THEN NewConnection /\ auth' = CreatedFrom(auth)
       ELSE UNCHANGED <<connections, clients, auth>>
    /\ requests' = [requests EXCEPT ![s] =
           [IdleRequest EXCEPT !.pc = "stat", !.handle = connections'[ProviderBase],
                               !.uri = uri, !.create = options.create,
                               !.overwrite = options.overwrite]]
    /\ EngineUnchanged

\* this.stat(uri) returned or was rejected: throwIfWriteFileIsNotAllowed
\* throws, or putFileContents is issued.
WriteStatReturns(s) ==
    LET t == requests[s]
        error == ThrowIfWriteFileIsNotAllowed(
                     RemoteType(remoteDirs, remoteFiles, t.uri),
                     [create |-> t.create, overwrite |-> t.overwrite])
    IN
    /\ t.pc = "stat"
    /\ requests' = [requests EXCEPT ![s] =
           IF error # "none" THEN [t EXCEPT !.pc = "done", !.outcome = error]
           ELSE [t EXCEPT !.pc = "put", !.put = @ + 1]]
    /\ UNCHANGED <<connections, clients, auth>>
    /\ EngineUnchanged

\* What the server does with putFileContents(p, content, {overwrite}).
RemoteWrite(dirs, files, p, overwrite) ==
    IF p \in dirs THEN [status |-> 405, files |-> files]
    ELSE IF files[p] # 0 /\ ~overwrite THEN [status |-> 412, files |-> files]
    ELSE [status |-> 0, files |-> [files EXCEPT ![p] = @ + 1]]

\* putFileContents returned or was rejected.
WritePutReturns(s) ==
    LET t == requests[s]
        r == RemoteWrite(remoteDirs, remoteFiles, t.uri, t.overwrite)
    IN
    /\ t.pc = "put"
    /\ remoteFiles' = r.files
    /\ requests' = [requests EXCEPT ![s].pc = "done", ![s].outcome =
           IF r.status = 0 THEN "ok" ELSE ErrorOfStatus(r.status)]
    /\ UNCHANGED <<configurations, watchers, pendingChanges, debounceTimers, tasks,
                   now, localFiles, remoteDirs, nEvents, nFaults, nFull,
                   observed, putCalls, finished, fired, unnotified, store, ops,
                   nOps, thrown, call, connections, clients, auth>>

NextWrite ==
    \/ \E s \in 1..MaxRequests, uri \in WriteTargets, options \in WriteOptions :
           WriteFile(s, uri, options)
    \/ \E s \in 1..MaxRequests : WriteStatReturns(s)
    \/ \E s \in 1..MaxRequests : WritePutReturns(s)

SpecWrite == InitClients /\ [][NextWrite]_vars

NextProvider ==
    \/ \E s \in 1..MaxRequests : ForConnection(s)
    \/ \E s \in 1..MaxRequests, status \in Statuses : ActionReturns(s, status)
    \/ \E s \in 1..MaxRequests, message \in {"Authenticate", "Cancel"} :
           WarningAnswered(s, message)
    \/ \E s \in 1..MaxRequests : ConfigureReturns(s)
    \/ \E s \in 1..MaxRequests, status \in Statuses : RetryReturns(s, status)
    \/ ConfigureAuthStarts
    \/ ConfigureAuthEnds

SpecProvider == InitClients /\ [][NextProvider]_vars

\* Operations on an endpoint whose client cannot always be created: the
\* settings name a certificate file, and createClient throws when reading it
\* fails. The promise createClient returned is then a rejected one; it is
\* recorded with Unreadable in place of the settings version.
Unreadable == -1

RejectedClient(handle) == handle # 0 /\ auth.of[handle] = Unreadable

\* forConnection with a client that was created, or is created now.
ForConnectionCreated(s) ==
    /\ ~RejectedClient(connections[ProviderBase])
    /\ ForConnection(s)

\* forConnection up to `await connections[baseUri]` when the promise is a
\* rejected one: createClient is called on a miss and throws in its
\* certificate block, or the cache holds the promise of an earlier failure.
ForConnectionFailing(s) ==
    /\ FirstIdleRequest(s)
    /\ IF connections[ProviderBase] = 0
       THEN /\ clients.made < MaxHandles
            /\ NewConnection
            /\ auth' = [auth EXCEPT !.of = Append(@, Unreadable)]
       ELSE /\ RejectedClient(connections[ProviderBase])
            /\ UNCHANGED <<connections, clients, auth>>
    /\ requests' = [requests EXCEPT ![s] =
           [IdleRequest EXCEPT !.pc = "client",
                               !.handle = connections'[ProviderBase]]]
    /\ EngineUnchanged

\* The await throws the certificate error, which has no status: the catch of
\* forConnection falls through its switch and rethrows it.
ClientRejected(s) ==
    /\ requests[s].pc = "client"
    /\ requests' = [requests EXCEPT ![s].pc = "done",
                                    ![s].outcome = ErrorOfStatus(0)]
    /\ UNCHANGED <<connections, clients, auth>>
    /\ EngineUnchanged

NextCreate ==
    \/ \E s \in 1..MaxRequests : ForConnectionCreated(s)
    \/ \E s \in 1..MaxRequests : ForConnectionFailing(s)
    \/ \E s \in 1..MaxRequests : ClientRejected(s)
    \/ \E s \in 1..MaxRequests, status \in Statuses : ActionReturns(s, status)
    \/ \E s \in 1..MaxRequests, message \in {"Authenticate", "Cancel"} :
           WarningAnswered(s, message)
    \/ \E s \in 1..MaxRequests : ConfigureReturns(s)
    \/ \E s \in 1..MaxRequests, status \in Statuses : RetryReturns(s, status)

SpecCreate == InitClients /\ [][NextCreate]_vars

\* A batch of two entries and a full sync of the same configuration, with
\* calls that may fail.
InterleaveEvent(rel) ==
    /\ nEvents < MaxEvents
    /\ QueueChange("A", rel, "change")

NextInterleave ==
    \/ \E rel \in ScenarioPaths : InterleaveEvent(rel)
    \/ \E id \in ConfigIds : TimerFires(id)
    \/ \E id \in ConfigIds : SyncNow(id)
    \/ \E s \in 1..MaxTasks : WalkReturns(s)
    \/ \E s \in 1..MaxTasks : UploadReturns(s) \/ SizeReturns(s)
    \/ \E s \in 1..MaxTasks : CallFails(s)

SpecInterleave == InitStop /\ [][NextInterleave]_vars

\* The two filters on their own: the filter of queueChange and the filter of
\* walkDirectory, applied to one existing file below the local root.
FileInDotDir == <<".git", "config">>
PolicyPaths == RelPaths \cup {FileInDotDir}

PolicyData ==
    [ enabled : {TRUE}, syncOnDelete : BOOLEAN, syncHidden : BOOLEAN,
      debounceMs : DebounceChoices, excludePatterns : {<<>>, <<LogPattern>>} ]

InitPolicy == \E data \in PolicyData : Started(data, EmptyTree)

\* A create or change event on the file, and a full walk of the root that
\* holds it.
CallPolicy(rel, type) ==
    LET config == configurations["A"] IN
    /\ call = NoCall
    /\ call' = [ fn |-> "policy", rel |-> rel, type |-> type,
                 queued |-> Qualifies(config, LocalRoot \o rel, type),
                 walked |-> ~WalkSkips(rel, config.excludePatterns, config.syncHidden) ]
    /\ UNCHANGED <<configurations, watchers, pendingChanges, debounceTimers, tasks,
                   now, localFiles, remoteFiles, remoteDirs, nEvents, nFaults, nFull,
                   observed, putCalls, finished, fired, unnotified, store, ops,
                   nOps, thrown, connections, clients,
                   requests, auth>>

NextPolicy ==
    \E rel \in PolicyPaths, type \in {"create", "change"} : CallPolicy(rel, type)

SpecPolicy == InitPolicy /\ [][NextPolicy]_vars

\* The debounced engine of one configuration that stays enabled, with fair
\* timers and calls that all return: a setTimeout callback runs once its
\* delay has passed, and every awaited call settles. Files are changed and
\* existing files are removed; nothing is excluded.
EventualData ==
    [ enabled : {TRUE}, syncOnDelete : BOOLEAN, syncHidden : {FALSE},
      debounceMs : {0}, excludePatterns : {<<>>} ]

EventualPaths == {FileA, FileLog}

InitEventual == \E data \in EventualData : Started(data, EmptyTree)

EventualEvent(rel, type) ==
    /\ nEvents < MaxEvents
    /\ type = "delete" => localFiles["A"][rel] # 0
    /\ QueueChange("A", rel, type)

EventualReturns(s) ==
    \/ ClientReturns(s)
    \/ ReadReturns(s)
    \/ PutReturns(s)
    \/ SizeReturns(s)
    \/ DeleteReturns(s)

NextEventual ==
    \/ \E rel \in EventualPaths, type \in {"change", "delete"} : EventualEvent(rel, type)
    \/ \E id \in ConfigIds : TimerFires(id)
    \/ \E s \in 1..MaxTasks : EventualReturns(s)

SpecEventual ==
    /\ InitEventual
    /\ [][NextEventual]_vars
    /\ WF_vars(\E id \in ConfigIds : TimerFires(id))
    /\ WF_vars(\E s \in 1..MaxTasks : EventualReturns(s))

\* Batches and full syncs of one configuration that may be paused or removed
\* while they run, with calls that may fail and all return.
MaySettle == nEvents + nFull + nOps < MaxOps

SettleEvent(rel) ==
    /\ MaySettle
    /\ QueueChange("A", rel, "change")

SettleSyncNow(id) ==
    /\ MaySettle
    /\ SyncNow(id)

SettleCommand ==
    /\ MaySettle
    /\ \/ UpdateConfiguration("A", [enabled |-> FALSE])
       \/ RemoveConfiguration("A")

SettleReturns(s) ==
    \/ WalkReturns(s)
    \/ ClientReturns(s)
    \/ ReadReturns(s)
    \/ PutReturns(s)
    \/ SizeReturns(s)

NextSettle ==
    \/ SettleEvent(FileA)
    \/ \E id \in ConfigIds : TimerFires(id)
    \/ \E id \in ConfigIds : SettleSyncNow(id)
    \/ SettleCommand
    \/ SaveReturns
    \/ \E s \in 1..MaxTasks : SettleReturns(s)
    \/ \E s \in 1..MaxTasks : CallFails(s)

SpecSettle ==
    /\ InitStop
    /\ [][NextSettle]_vars
    /\ WF_vars(\E s \in 1..MaxTasks : SettleReturns(s))

\* Two configurations that differ in syncOnSave only, each with its own
\* watcher, fed the same events: every event is reported for A and then, the
\* same one, for B; timers and calls of the two run as they come.
WithSyncOnSave(config, flag) == ("syncOnSave" :> flag) @@ config

StartedTwins(data) ==
    /\ configurations = [id \in ConfigIds |->
           WithSyncOnSave(SyncConfiguration(data), id = "A")]
    /\ watchers = ConfigIds
    /\ pendingChanges = [id \in ConfigIds |-> <<>>]
    /\ debounceTimers = [id \in ConfigIds |-> NoTimer]
    /\ tasks = [s \in 1..MaxTasks |-> IdleTask]
    /\ now = 0
    /\ localFiles = [id \in ConfigIds |-> EmptyTree]
    /\ remoteFiles = [rp \in RemotePaths |-> 0]
    /\ remoteDirs = {RemoteBase}
    /\ nEvents = 0
    /\ nFaults = 0
    /\ nFull = 0
    /\ observed = [id \in ConfigIds |->
                      [at |-> NoTime, kinds |-> [r \in RelPaths |-> "none"],
                       window |-> [r \in RelPaths |-> 0],
                       drained |-> [r \in RelPaths |-> 0]]]
    /\ putCalls = [rp \in RemotePaths |-> 0]
    /\ finished = NothingFinished
    /\ fired = 0
    /\ unnotified = FALSE
    /\ store = [id \in ConfigIds |-> ToJSON(SyncConfiguration(data))]
    /\ ops = <<>>
    /\ nOps = 0
    /\ thrown = NoError
    /\ call = NoCall
    /\ connections = NoConnections
    /\ clients = NoClients
    /\ requests = [s \in 1..MaxRequests |-> IdleRequest]
    /\ auth = NoAuth

InitTwins == \E data \in ConfigurationData : StartedTwins(data)

\* The events so far were reported to both configurations.
BothFed == nEvents % 2 = 0

\* What an execution of id is doing: its kind, position, entries and counts.
TwinTask(id) ==
    LET own == {s \in 1..MaxTasks : tasks[s].pc # "idle" /\ tasks[s].id = id}
        t   == IF own = {} THEN IdleTask ELSE tasks[CHOOSE s \in own : TRUE]
    IN  [kind |-> t.kind, pc |-> t.pc, items |-> t.items, i |-> t.i,
         successCount |-> t.successCount, errorCount |-> t.errorCount,
         attempted |-> t.attempted]

\* The pending set, the timer, the shown state and the remote call of id.
TwinState(id) ==
    LET config == configurations[id] IN
    <<pendingChanges[id], debounceTimers[id], config.status, config.lastError,
      config.lastSyncTime, config.filesInQueue, TwinTask(id)>>

\* B has had every input A has had, and stands where A stands.
Aligned == BothFed /\ TwinState("A") = TwinState("B")

\* An event for A, and then the same event for B.
TwinEvent(rel, type) ==
    /\ nEvents < 2 * MaxEvents
    /\ IF BothFed
       THEN /\ Aligned
            /\ type = "delete" => localFiles["A"][rel] # 0
            /\ QueueChange("A", rel, type)
       ELSE /\ IF type = "delete"
               THEN localFiles["A"][rel] = 0 /\ localFiles["B"][rel] # 0
               ELSE localFiles["A"][rel] = nEvents + 1
            /\ QueueChange("B", rel, type)

\* The clock moves for both at once.
TwinTick == Aligned /\ Tick

\* The timer of A expires, and then the timer of B.
TwinTimerFires(id) ==
    /\ IF id = "A"
       THEN Aligned /\ TwinTask("A").pc = "idle"
       ELSE BothFed /\ debounceTimers["B"] # debounceTimers["A"]
    /\ TimerFires(id)

\* A call of A returns, and then the same call of B.
TwinTurn(s) ==
    IF tasks[s].id = "A"
    THEN Aligned
    ELSE BothFed /\ ~Aligned /\ debounceTimers["B"] = debounceTimers["A"]

TwinPaths == {FileA, FileLog}

NextTwins ==
    \/ \E rel \in TwinPaths, type \in {"change", "delete"} : TwinEvent(rel, type)
    \/ TwinTick
    \/ \E id \in ConfigIds : TwinTimerFires(id)
    \/ \E s \in 1..MaxTasks :
           /\ TwinTurn(s)
           /\ \/ ClientReturns(s)
              \/ ReadReturns(s)
              \/ PutReturns(s)
              \/ SizeReturns(s)
              \/ DeleteReturns(s)

SpecTwins == InitTwins /\ [][NextTwins]_vars

\* Two configurations side by side: both are loaded enabled at construction
\* and each has its watcher, its queue and its timer; events, batches and
\* full syncs of the two interleave.
PairData ==
    [ enabled : {TRUE}, syncOnDelete : {TRUE}, syncHidden : {FALSE},
      debounceMs : {0}, excludePatterns : {<<LogPattern>>} ]

StartedPair(data, tree) ==
    /\ configurations = [id \in ConfigIds |-> SyncConfiguration(data)]
    /\ watchers = ConfigIds
    /\ pendingChanges = [id \in ConfigIds |-> <<>>]
    /\ debounceTimers = [id \in ConfigIds |-> NoTimer]
    /\ tasks = [s \in 1..MaxTasks |-> IdleTask]
    /\ now = 0
    /\ localFiles = [id \in ConfigIds |-> tree]
    /\ remoteFiles = [rp \in RemotePaths |-> 0]
    /\ remoteDirs = {RemoteBase}
    /\ nEvents = 0
    /\ nFaults = 0
    /\ nFull = 0
    /\ observed = [id \in ConfigIds |->
                      [at |-> NoTime, kinds |-> [r \in RelPaths |-> "none"],
                       window |-> [r \in RelPaths |-> 0],
                       drained |-> [r \in RelPaths |-> 0]]]
    /\ putCalls = [rp \in RemotePaths |-> 0]
    /\ finished = NothingFinished
    /\ fired = 0
    /\ unnotified = FALSE
    /\ store = [id \in ConfigIds |-> ToJSON(SyncConfiguration(data))]
    /\ ops = <<>>
    /\ nOps = 0
    /\ thrown = NoError
    /\ call = NoCall
    /\ connections = NoConnections
    /\ clients = NoClients
    /\ requests = [s \in 1..MaxRequests |-> IdleRequest]
    /\ auth = NoAuth

InitPair == \E data \in PairData : StartedPair(data, EmptyTree)

PairEvent(id, rel) ==
    /\ MayStart
    /\ QueueChange(id, rel, "change")

NextPair ==
    \/ \E id \in ConfigIds : PairEvent(id, FileA)
    \/ \E id \in ConfigIds : TimerFires(id)
    \/ \E id \in ConfigIds : MayStart /\ SyncNow(id)
    \/ \E s \in 1..MaxTasks :
           \/ ClientReturns(s)
           \/ WalkReturns(s)
           \/ ReadReturns(s)
           \/ PutReturns(s)
           \/ SizeReturns(s)

SpecPair == InitPair /\ [][NextPair]_vars

\* ================================================================ claims
InFlight(id) == { s \in 1..MaxTasks : tasks[s].pc # "idle" /\ tasks[s].id = id }
Batches(id)  == { s \in InFlight(id) : tasks[s].kind = "batch" }
TimerPending(id) == debounceTimers[id].state = "pending"
Quiescent(id) == ~TimerPending(id) /\ InFlight(id) = {}
RemoteOf(id, rel) == RemotePathOf(configurations[id], LocalRoot \o rel)

\* C1: with syncOnDelete on and every call succeeding, once no timer is
\* pending and no batch is in flight the remote file of every touched path
\* holds the latest local content if the last event on it was a create or a
\* change, and does not exist if the last event was a delete.
C1_MirrorConverged ==
    \A id \in DOMAIN configurations :
        (configurations[id].syncOnDelete /\ Quiescent(id)) =>
            \A rel \in RelPaths :
                CASE observed[id].kinds[rel] = "none" -> TRUE
                  [] observed[id].kinds[rel] = "delete" ->
                         remoteFiles[RemoteOf(id, rel)] = 0
                  [] OTHER ->
                         /\ localFiles[id][rel] # 0
                         /\ remoteFiles[RemoteOf(id, rel)] = localFiles[id][rel]


\* C7: no two debounced batches of one configuration are in flight at the
\* same time (the one pending timer per configuration is debounceTimers[id]).
C7_OneBatchAtATime ==
    \A id \in ConfigIds : Cardinality(Batches(id)) <= 1

Paths(changes) == [k \in 1..Len(changes) |-> changes[k].path]
NoDuplicates(seq) == \A j, k \in 1..Len(seq) : seq[j] = seq[k] => j = k
EntriesOf(changes, filePath) == { k \in 1..Len(changes) : changes[k].path = filePath }

\* A step in which the watcher of id reports a qualifying `type` on rel.
QualifyingEvent(id, rel, type) ==
    /\ FsEvent(id, rel, type)
    /\ id \in DOMAIN configurations
    /\ Qualifies(configurations[id], LocalRoot \o rel, type)

\* C2: a pending-change set never holds two entries for one path, nor does a
\* captured batch; a qualifying event on a path that has an entry leaves the
\* number of entries as it is and sets that entry's kind and timestamp.
C2_NoDuplicatePaths ==
    /\ \A id \in DOMAIN pendingChanges : NoDuplicates(Paths(pendingChanges[id]))
    /\ \A s \in 1..MaxTasks :
           tasks[s].kind = "batch" => NoDuplicates(Paths(tasks[s].items))

C2_EventOverwrites ==
    \A id \in ConfigIds, rel \in RelPaths, type \in EventTypes :
        (/\ QualifyingEvent(id, rel, type)
         /\ EntriesOf(pendingChanges[id], LocalRoot \o rel) # {})
        => /\ Len(pendingChanges'[id]) = Len(pendingChanges[id])
           /\ \A k \in EntriesOf(pendingChanges'[id], LocalRoot \o rel) :
                  /\ pendingChanges'[id][k].type = type
                  /\ pendingChanges'[id][k].timestamp = now

C2_OneEntryPerPath == []C2_NoDuplicatePaths /\ [][C2_EventOverwrites]_vars

\* An entry that took a second event, of another kind, at a later time.
C2_Witness ==
    /\ observed["A"].window[FileA] = 2
    /\ Len(pendingChanges["A"]) = 1
    /\ pendingChanges["A"][1].type = "delete"
    /\ pendingChanges["A"][1].timestamp = 1

BatchStarts(id, s) ==
    /\ tasks[s].pc = "idle"
    /\ tasks'[s].kind = "batch"
    /\ tasks'[s].id = id

\* C4: a qualifying event leaves the configuration with one pending timer that
\* expires debounceMs after the event, whatever timer was pending before; and
\* a batch starts only when at least debounceMs have passed since the last
\* qualifying event of its configuration.
C4_Step ==
    /\ \A id \in ConfigIds, rel \in RelPaths, type \in EventTypes :
           QualifyingEvent(id, rel, type) =>
               debounceTimers'[id] =
                   [state |-> "pending",
                    deadline |-> now + configurations[id].debounceMs]
    /\ \A id \in ConfigIds, s \in 1..MaxTasks :
           BatchStarts(id, s) =>
               /\ observed[id].at # NoTime
               /\ now - observed[id].at >= configurations[id].debounceMs

C4_DebounceTiming == [][C4_Step]_vars

\* A batch that started after a second event had moved the deadline.
C4_Witness ==
    /\ Batches("A") # {}
    /\ configurations["A"].debounceMs = 2
    /\ nEvents = 2
    /\ observed["A"].at = 1
    /\ observed["A"].drained[FileA] = 2

\* C6: a starting batch captures the whole pending set, leaves the live set
\* empty and stops at its first await with no remote call issued; an entry
\* leaves the live set only by being captured; and a qualifying event during a
\* batch goes into the live set with a new timer and changes no batch.
C6_Step ==
    /\ \A id \in ConfigIds, s \in 1..MaxTasks :
           BatchStarts(id, s) =>
               /\ tasks'[s].items = pendingChanges[id]
               /\ pendingChanges'[id] = <<>>
               /\ tasks'[s].pc = "client"
               /\ UNCHANGED <<remoteFiles, remoteDirs, putCalls>>
    /\ \A id \in DOMAIN pendingChanges : \A k \in 1..Len(pendingChanges[id]) :
           \/ /\ id \in DOMAIN pendingChanges'
              /\ EntriesOf(pendingChanges'[id], pendingChanges[id][k].path) # {}
           \/ \E s \in 1..MaxTasks :
                  /\ BatchStarts(id, s)
                  /\ EntriesOf(tasks'[s].items, pendingChanges[id][k].path) # {}
    /\ \A id \in ConfigIds, rel \in RelPaths, type \in EventTypes :
           (QualifyingEvent(id, rel, type) /\ Batches(id) # {}) =>
               /\ EntriesOf(pendingChanges'[id], LocalRoot \o rel) # {}
               /\ debounceTimers'[id].state = "pending"
               /\ UNCHANGED tasks

C6_AtomicDrain == [][C6_Step]_vars

\* An event arrived while a batch was awaiting the answer to its put.
C6_Witness ==
    \E s \in Batches("A") :
        /\ tasks[s].pc = "put"
        /\ Len(pendingChanges["A"]) = 1
        /\ TimerPending("A")


Finishes(s, kind) ==
    /\ tasks[s].kind = kind
    /\ tasks[s].pc # "idle"
    /\ tasks'[s].pc = "idle"

\* C8: when a batch of M >= 1 entries ends with K failures, status is 'error'
\* if K > 0 and 'idle' if K = 0, lastSyncTime is the time of the end, and the
\* end clears lastError if K = 0 and does not clear it if K > 0.
C8_Step ==
    \A s \in 1..MaxTasks :
        Finishes(s, "batch") =>
            LET id == tasks[s].id
                K == finished'.errorCount
                M == Len(finished'.items)
            IN  /\ finished'.kind = "batch"
                /\ M >= 1
                /\ K = tasks[s].errorCount
                       + (IF finished'.successCount = tasks[s].successCount
                          THEN 1 ELSE 0)
                /\ configurations'[id].status = IF K > 0 THEN "error" ELSE "idle"
                /\ configurations'[id].lastSyncTime = now
                /\ K = 0 => configurations'[id].lastError = NoError
                /\ (K > 0 /\ configurations[id].lastError # NoError) =>
                       configurations'[id].lastError # NoError

C8_BatchStatusAggregation == [][C8_Step]_vars

\* A batch of two entries ended with one failure, after time had passed.
C8_Witness ==
    /\ finished.kind = "batch"
    /\ Len(finished.items) = 2
    /\ finished.errorCount = 1
    /\ finished.at = 2
    /\ Quiescent("A")
    /\ configurations["A"].status = "error"
    /\ configurations["A"].lastSyncTime = 2

\* C9: a batch calls syncFile for its captured entries one after the other,
\* each once and in the captured order, whatever the earlier entries did, and
\* ends with successCount + errorCount equal to the number of entries.
C9_FailSoft ==
    /\ \A s \in 1..MaxTasks :
           (tasks[s].kind = "batch" /\ tasks[s].pc # "idle") =>
               /\ tasks[s].i \in 1..Len(tasks[s].items)
               /\ tasks[s].attempted = Paths(SubSeq(tasks[s].items, 1, tasks[s].i))
               /\ tasks[s].successCount + tasks[s].errorCount = tasks[s].i - 1
    /\ finished.kind = "batch" =>
           /\ finished.outcome = "completed"
           /\ finished.attempted = Paths(finished.items)
           /\ finished.successCount + finished.errorCount = Len(finished.items)

\* The first entry of a batch failed and the second is being attempted.
C9_Witness ==
    \E s \in 1..MaxTasks :
        /\ tasks[s].kind = "batch"
        /\ tasks[s].i = 2
        /\ tasks[s].errorCount = 1
        /\ tasks[s].pc = "put"

\* C10: when the upload of file k of n is the first that fails in syncNow,
\* uploadFile has been called for files 1..k and for no other, the error
\* thrown names k/n and the path of file k, and at the rejection status is
\* 'error' and lastError is that error.
C10_Step ==
    \A s \in 1..MaxTasks :
        (/\ Finishes(s, "full")
         /\ finished'.outcome = "rejected"
         /\ tasks[s].pc \notin {"client", "walk"})
        => LET f == finished'
               k == Len(f.attempted)
               n == Len(f.items)
           IN  /\ k \in 1..n
               /\ f.attempted = Paths(SubSeq(f.items, 1, k))
               /\ f.successCount = k - 1
               /\ f.error.kind = "failedAt"
               /\ f.error.position = k
               /\ f.error.total = n
               /\ f.error.path = f.items[k].path
               /\ configurations'[tasks[s].id].status = "error"
               /\ configurations'[tasks[s].id].lastError = f.error

C10_FailFast == [][C10_Step]_vars

\* A full sync of three files was rejected at the second.
C10_Witness ==
    /\ finished.kind = "full"
    /\ finished.outcome = "rejected"
    /\ Len(finished.items) = 3
    /\ Len(finished.attempted) = 2
    /\ finished.error.kind = "failedAt"
    /\ finished.error.position = 2
    /\ configurations["A"].status = "error"


\* C11: syncNow on an unknown id throws configuration-not-found, on a
\* configuration that is not enabled sync-disabled; the call issues no remote
\* or file-system call, fires no notification and leaves every configuration,
\* pending set, timer and watcher as it was.
C11_Step ==
    nFull' # nFull =>
        /\ thrown'.kind \in {"notFound", "disabled"}
        /\ thrown'.kind = "notFound" <=> thrown'.id \notin DOMAIN configurations
        /\ thrown'.kind = "disabled" =>
               /\ thrown'.id \in DOMAIN configurations
               /\ ~configurations[thrown'.id].enabled
        /\ fired' = 0
        /\ UNCHANGED <<configurations, watchers, pendingChanges, debounceTimers,
                       tasks, localFiles, remoteFiles, remoteDirs, putCalls,
                       finished, store, ops>>

C11_SyncNowRejects == [][C11_Step]_vars

\* syncNow was rejected for a paused configuration whose queue and timer are
\* still there.
C11_Witness ==
    /\ thrown = SyncDisabled("A")
    /\ "A" \in DOMAIN pendingChanges
    /\ Len(pendingChanges["A"]) = 1
    /\ debounceTimers["A"].state = "pending"
    /\ configurations["A"].filesInQueue = 1


\* C12: when syncNow completes, uploadFile was called once for every file the
\* walk returned, in the order of the walk, every call succeeded, and the
\* completion sets status 'idle', lastSyncTime and clears lastError.
C12_Step ==
    \A s \in 1..MaxTasks :
        (Finishes(s, "full") /\ finished'.outcome = "completed") =>
            LET f == finished'
                id == tasks[s].id
            IN  /\ f.attempted = Paths(f.items)
                /\ NoDuplicates(f.attempted)
                /\ f.successCount = Len(f.items)
                /\ f.errorCount = 0
                /\ \A k \in 1..Len(f.items) :
                       putCalls[RemotePathOf(configurations[id], f.items[k].path)] >= 1
                /\ configurations'[id].status = "idle"
                /\ configurations'[id].lastSyncTime = now
                /\ configurations'[id].lastError = NoError

FullSyncs(id) == { s \in InFlight(id) : tasks[s].kind = "full" }

\* C13: while a syncNow of a configuration is executing, the status of the
\* configuration is 'syncing'.
C13_SyncingThroughout ==
    \A id \in DOMAIN configurations :
        FullSyncs(id) # {} => configurations[id].status = "syncing"

\* C14: status 'syncing' implies that a batch or a full sync of the
\* configuration is executing; when none is, status is 'error' if the batch
\* or full sync that ended last had a failure and 'idle' if it had none or
\* none has run.
LastHadFailure(id) ==
    /\ finished.id = id
    /\ \/ finished.kind = "batch" /\ finished.errorCount > 0
       \/ finished.kind = "full" /\ finished.outcome = "rejected"

C14_StatusInvariant ==
    \A id \in DOMAIN configurations :
        /\ configurations[id].status = "syncing" => InFlight(id) # {}
        /\ InFlight(id) = {} =>
               configurations[id].status =
                   IF LastHadFailure(id) THEN "error" ELSE "idle"

\* A full sync and a batch have run; the batch ended last, with a failure,
\* and nothing is executing.
C14_Witness ==
    /\ InFlight("A") = {}
    /\ nFull = 1
    /\ finished.kind = "batch"
    /\ LastHadFailure("A")
    /\ configurations["A"].status = "error"


\* The size of the live pending set of id; 0 when the set has been dropped.
LiveSize(id) == IF id \in DOMAIN pendingChanges THEN Len(pendingChanges[id]) ELSE 0

\* C15: filesInQueue of a configuration equals the size of its live pending
\* set, 0 when the set has been dropped.
C15_FilesInQueue ==
    \A id \in DOMAIN configurations :
        configurations[id].filesInQueue = LiveSize(id)


\* The counters of the execution of slot s after the step.
After(s) == IF tasks'[s].pc = "idle" THEN finished' ELSE tasks'[s]

\* C16: when deleteFile for a queued delete entry is answered with 404 the
\* entry is a success: successCount grows, errorCount and lastError are not
\* touched by it; when it is rejected with another status the entry is an
\* error: errorCount grows and lastError is that failure.
C16_Step ==
    \A s \in 1..MaxTasks :
        (tasks[s].pc = "delete" /\ tasks'[s] # tasks[s]) =>
            LET t == tasks[s]
                id == t.id
                rp == RemotePathOf(configurations[id], t.items[t.i].path)
                ends == tasks'[s].pc = "idle"
            IN  IF nFaults' = nFaults
                THEN /\ remoteFiles[rp] = 0 => remoteFiles' = remoteFiles
                     /\ After(s).successCount = t.successCount + 1
                     /\ After(s).errorCount = t.errorCount
                     /\ configurations'[id].lastError =
                            IF ends /\ t.errorCount = 0 THEN NoError
                            ELSE configurations[id].lastError
                ELSE /\ After(s).successCount = t.successCount
                     /\ After(s).errorCount = t.errorCount + 1
                     /\ configurations'[id].lastError =
                            Failure("delete", t.items[t.i].path, 500)
                     /\ ends => configurations'[id].status = "error"

C16_DeleteIdempotent == [][C16_Step]_vars

\* A batch whose only entry was the delete of a file the server never had
\* ended without an error.
C16_Witness ==
    /\ finished.kind = "batch"
    /\ Len(finished.items) = 1
    /\ finished.items[1].type = "delete"
    /\ putCalls[RemotePathOf(configurations["A"], finished.items[1].path)] = 0
    /\ finished.successCount = 1
    /\ finished.errorCount = 0
    /\ configurations["A"].status = "idle"
    /\ configurations["A"].lastError = NoError


\* The directories of the remote path of FileDeep below the base.
DeepAncestors ==
    { p \in { GetAllParents(RemoteOf("A", FileDeep))[k] :
                  k \in 1..Len(GetAllParents(RemoteOf("A", FileDeep))) } :
          ~SkipsParent(p, RemoteBase) }

\* The ensure-chain of the execution in slot s is over without an error.
ChainDone(s) ==
    /\ tasks[s].pc \in {"read", "put", "size"}
    /\ tasks[s].items[tasks[s].i].path = LocalRoot \o FileDeep

CreateStatus(s) ==
    IF nFaults' # nFaults THEN 500
    ELSE RemoteCreateDirectory(remoteDirs, CurrentParent(tasks[s])).status

\* C18: when createDirectory for an ancestor is rejected with a status other
\* than 405 the chain stops there, putFileContents is not issued, and the
\* upload has failed: the entry is counted as an error of its batch, syncNow
\* rejects at that file.  After a 405 (or a success) the chain goes on with
\* the next ancestor or, after the last, with the read of the file.
C18_Step ==
    \A s \in 1..MaxTasks :
        (tasks[s].pc = "mkdir" /\ tasks'[s] # tasks[s]) =>
            LET t == tasks[s]
                id == t.id
            IN  IF CreateStatus(s) \in {0, 405}
                THEN /\ tasks'[s] = EnsureNext(t, ConfigOf(t))
                     /\ tasks'[s].i = t.i
                     /\ \/ tasks'[s].pc = "stat" /\ tasks'[s].anc > t.anc
                        \/ tasks'[s].pc = "read"
                     /\ UNCHANGED <<configurations, finished, putCalls>>
                ELSE /\ UNCHANGED <<putCalls, remoteFiles, remoteDirs>>
                     /\ tasks'[s].pc \in {"idle", "client"}
                     /\ tasks'[s].pc = "client" => tasks'[s].i = t.i + 1
                     /\ configurations'[id].lastError # NoError
                     /\ IF t.kind = "batch"
                        THEN /\ After(s).errorCount = t.errorCount + 1
                             /\ After(s).successCount = t.successCount
                             /\ tasks'[s].pc = "idle" =>
                                    configurations'[id].status = "error"
                        ELSE /\ tasks'[s].pc = "idle"
                             /\ finished'.outcome = "rejected"
                             /\ finished'.error.kind = "failedAt"
                             /\ finished'.error.position = t.i
                             /\ configurations'[id].status = "error"

C18_CreateFailureAborts == [][C18_Step]_vars

\* syncNow was rejected because the first directory could not be created:
\* no directory was made and nothing was put.
C18_Witness ==
    /\ finished.kind = "full"
    /\ finished.outcome = "rejected"
    /\ finished.error.kind = "failedAt"
    /\ finished.error.status = 500
    /\ remoteDirs = {RemoteBase}
    /\ putCalls[RemoteOf("A", FileDeep)] = 0
    /\ InFlight("A") = {}

\* The files of the tree whose relative path matches '**/*.log'.
MatchesLog == {FileLog, FileDeep}

ExcludedNow(rel) ==
    /\ configurations["A"].excludePatterns = <<LogPattern>>
    /\ rel \in MatchesLog

\* Nothing that is excluded is queued, listed by a walk, or uploaded.
NothingExcluded ==
    \A rel \in RelPaths :
        ExcludedNow(rel) =>
            /\ \A k \in 1..Len(pendingChanges["A"]) :
                   pendingChanges["A"][k].path # LocalRoot \o rel
            /\ \A s \in InFlight("A") :
                   \A k \in 1..Len(tasks[s].items) :
                       tasks[s].items[k].path # LocalRoot \o rel
            /\ putCalls[RemoteOf("A", rel)] = 0

WalkedPaths(s) == { tasks[s].items[k].path : k \in 1..Len(tasks[s].items) }

\* C19: a file whose path relative to the local root matches a configured
\* exclusion pattern never enters the pending set and its event starts no
\* timer and fires nothing; the full walk never returns it and syncNow never
\* uploads it, whether it lies at the top of the tree or two directories
\* down.  With an empty pattern list the exclusion filter rejects nothing:
\* an event on any of these files is queued with a timer, and the walk
\* returns every file of the tree.
C19_Step ==
    /\ NothingExcluded'
    /\ \A rel \in ExclusionPaths :
           localFiles'["A"][rel] # localFiles["A"][rel] =>
               IF ExcludedNow(rel)
               THEN /\ UNCHANGED <<pendingChanges, debounceTimers, configurations,
                                   tasks>>
                    /\ fired' = 0
               ELSE /\ \E k \in 1..Len(pendingChanges'["A"]) :
                          pendingChanges'["A"][k].path = LocalRoot \o rel
                    /\ debounceTimers'["A"].state = "pending"
    /\ \A s \in 1..MaxTasks :
           (tasks[s].pc = "walk" /\ tasks'[s].pc # "walk") =>
               WalkedPaths(s)' =
                   { LocalRoot \o rel : rel \in { r \in ExclusionPaths : ~ExcludedNow(r) } }

Removing(id) ==
    \E k \in 1..Len(ops) : ops[k].kind = "remove" /\ ops[k].id = id

\* The derived runtime state of id is gone.
NoRuntimeState(id) ==
    /\ id \notin watchers
    /\ debounceTimers[id] = NoTimer
    /\ id \notin DOMAIN pendingChanges

\* C20: once removeConfiguration(id) of a known id has run, the registry
\* holds no id and neither a watcher, a debounce timer nor a pending set
\* exists for it; once its config.update is done the durable store holds no
\* id either, and it stays so; no debounced batch of an id that is not in the
\* registry ever starts.  A call for an unknown id (it appends no save)
\* leaves the registry, the watchers, the timers, the queues, the running
\* executions and the durable store as they were and fires nothing.
C20_Step ==
    /\ \A id \in ConfigIds :
           id \notin DOMAIN configurations' =>
               /\ NoRuntimeState(id)'
               /\ ~Removing(id)' => id \notin DOMAIN store'
    /\ \A s \in 1..MaxTasks :
           (tasks[s].pc = "idle" /\ tasks'[s].pc # "idle" /\ tasks'[s].kind = "batch") =>
               /\ tasks'[s].id \in DOMAIN configurations
               /\ tasks'[s].id \in DOMAIN configurations'
    /\ (nOps' # nOps /\ ops' = ops) =>
           /\ UNCHANGED <<configurations, watchers, debounceTimers, pendingChanges,
                           store, tasks>>
           /\ fired' = 0

AllCallsDone == ops = <<>>

Watched(id) == id \in DOMAIN configurations /\ configurations[id].enabled

\* C21: once all add, update and remove calls have run to completion, an id
\* has a file watcher exactly when the registry holds a configuration with
\* that id whose enabled flag is true.
C21_WatchingFollowsEnabled ==
    AllCallsDone => \A id \in ConfigIds : (id \in watchers) <=> Watched(id)

\* The fields of SyncConfigurationData and the runtime fields of the class.
DeclarativeFields ==
    {"enabled", "syncOnDelete", "syncHidden", "debounceMs", "excludePatterns",
     "localPath", "remotePath"}
RuntimeFields == {"status", "lastSyncTime", "lastError", "filesInQueue"}

Shown(config) ==
    [ status |-> config.status, lastError |-> config.lastError,
      lastSyncTime |-> config.lastSyncTime, filesInQueue |-> config.filesInQueue ]

\* This step changed the registry or what the listeners read of an object:
\* one the registry holds, or one a running execution took from it.
StateChanged ==
    \/ DOMAIN configurations' # DOMAIN configurations
    \/ \E id \in DOMAIN configurations \cap DOMAIN configurations' :
           Shown(configurations'[id]) # Shown(configurations[id])
    \/ \E s \in 1..MaxTasks :
           /\ tasks[s].pc # "idle"
           /\ tasks[s].held # <<>>
           /\ tasks'[s].held # <<>>
           /\ Shown(tasks'[s].held[1]) # Shown(tasks[s].held[1])

\* The execution or the registry call that took this step goes on after it.
StillRunning ==
    \/ \E s \in 1..MaxTasks : tasks'[s] # tasks[s] /\ tasks'[s].pc # "idle"
    \/ Len(ops') > Len(ops)

\* An execution or a registry call ends with this step.
EndsHere ==
    \/ \E s \in 1..MaxTasks : tasks[s].pc # "idle" /\ tasks'[s].pc = "idle"
    \/ Len(ops') < Len(ops)

\* C23: every change of the registry, of a configuration's status, lastError
\* or lastSyncTime, or of filesInQueue is followed by a change notification
\* no later than the end of the operation that made it: a step that makes
\* such a change fires after it, or belongs to an execution (batch, syncNow)
\* or a registry call (add, remove, update) that goes on after the step; and
\* the step with which an execution or a registry call ends fires, with no
\* change made after the last fire.
C23_Step ==
    /\ (StateChanged /\ fired' = 0) => unnotified'
    /\ unnotified' => StillRunning
    /\ EndsHere => fired' >= 1 /\ ~unnotified'

C24_RemotePathMapping ==
    call.fn = "toRemotePath" => call.result = call.base.path \o call.rel

\* How far the handling of one entry has come.
Stage(pc) ==
    CASE pc = "client" -> 1
      [] pc = "walk"   -> 2
      [] pc = "stat"   -> 3
      [] pc = "mkdir"  -> 3
      [] pc = "read"   -> 4
      [] pc = "put"    -> 5
      [] pc = "delete" -> 5
      [] pc = "size"   -> 6
      [] OTHER         -> 0

\* The execution in slot s took this step towards the end of its entry.
MovesOn(s) ==
    LET t == tasks[s]
        u == tasks'[s]
    IN  \/ Stage(u.pc) > Stage(t.pc)
        \/ /\ Stage(u.pc) = 3 /\ Stage(t.pc) = 3
           /\ \/ u.anc > t.anc
              \/ u.anc = t.anc /\ t.pc = "stat" /\ u.pc = "mkdir"

EventStep == nEvents' # nEvents

\* C25: no retry and no requeue.  Outside the handling of a file-system
\* event no entry enters a pending set and no debounce timer is started, so
\* an entry that failed comes back only with a new event on its path; a
\* batch starts only from a timer expiry, with the entries pending then; a
\* running batch goes through its captured entries once, in order, each
\* entry moving forward from client acquisition to its one put or delete
\* call and never back; and putFileContents is issued only by an execution
\* that has just read the file of its current entry.
C25_Step ==
    /\ ~EventStep =>
           \A id \in ConfigIds :
               /\ (id \in DOMAIN pendingChanges /\ id \in DOMAIN pendingChanges') =>
                      \A k \in 1..Len(pendingChanges'[id]) :
                          \E j \in 1..Len(pendingChanges[id]) :
                              pendingChanges'[id][k] = pendingChanges[id][j]
               /\ debounceTimers'[id].state = "pending" =>
                      debounceTimers'[id] = debounceTimers[id]
    /\ \A s \in 1..MaxTasks :
           LET t == tasks[s]
               u == tasks'[s]
           IN  /\ (t.pc = "idle" /\ u.pc # "idle" /\ u.kind = "batch") =>
                      /\ debounceTimers[u.id].state = "pending"
                      /\ u.items = pendingChanges[u.id]
                      /\ pendingChanges'[u.id] = <<>>
                      /\ u.i = 1
                      /\ u.attempted = <<u.items[1].path>>
               /\ (t.pc # "idle" /\ u.pc # "idle" /\ t.kind = "batch" /\ u # t) =>
                      /\ u.items = t.items
                      /\ \/ u.i = t.i /\ u.attempted = t.attempted /\ MovesOn(s)
                         \/ /\ u.i = t.i + 1
                            /\ u.pc = "client"
                            /\ u.attempted = Append(t.attempted, u.items[u.i].path)
    /\ \A rp \in RemotePaths :
           putCalls'[rp] # putCalls[rp] =>
               /\ putCalls'[rp] = putCalls[rp] + 1
               /\ \E s \in 1..MaxTasks :
                      /\ tasks[s].pc = "read"
                      /\ tasks'[s].pc = "put"
                      /\ RemotePathOf(ConfigOf(tasks[s]), tasks[s].items[tasks[s].i].path) = rp

C25_NoRetry == [][C25_Step]_vars

\* The put of a.txt failed and its batch ended with that one error; a second
\* event on a.txt brought the second, successful, put.
C25_Witness ==
    /\ nFaults = 1
    /\ nEvents = 2
    /\ putCalls[RemoteOf("A", FileA)] = 2
    /\ finished.kind = "batch"
    /\ finished.errorCount = 0
    /\ finished.attempted = <<LocalRoot \o FileA>>
    /\ remoteFiles[RemoteOf("A", FileA)] # 0
    /\ InFlight("A") = {}

\* stopSync(id) takes effect in this step.
Stops(id) == id \in watchers /\ id \notin watchers'

ItemPaths(items) == [k \in 1..Len(items) |-> items[k].path]

\* C26: when a configuration is stopped (paused or removed) while one of its
\* batches is in flight, the stop clears the debounce timer and drops the
\* pending set, and leaves the batch where it is; no batch starts for a
\* configuration that has no watcher, so the entries queued before the stop
\* are never processed; the batch in flight ends having attempted every
\* entry it captured and, on the object it works on, sets status and
\* lastSyncTime.
C26_Step ==
    /\ \A id \in ConfigIds :
           Stops(id) =>
               /\ debounceTimers'[id] = NoTimer
               /\ id \notin DOMAIN pendingChanges'
               /\ \A s \in Batches(id) :
                      \/ tasks'[s] = tasks[s]
                      \/ tasks'[s] = [tasks[s] EXCEPT !.held = <<configurations[id]>>]
    /\ \A s \in 1..MaxTasks :
           LET t == tasks[s]
               u == tasks'[s]
           IN  /\ (t.pc = "idle" /\ u.pc # "idle" /\ u.kind = "batch") =>
                      u.id \in watchers
               /\ (t.pc # "idle" /\ t.kind = "batch" /\ u.pc = "idle") =>
                      /\ finished'.attempted = ItemPaths(t.items)
                      /\ finished'.successCount + finished'.errorCount = Len(t.items)
                      /\ finished'.at = now
                      /\ t.held = <<>> =>
                             /\ configurations'[t.id].status =
                                    (IF finished'.errorCount > 0 THEN "error" ELSE "idle")
                             /\ configurations'[t.id].lastSyncTime = now

C26_StopInFlight == [][C26_Step]_vars

\* A batch of one entry is in flight on the object of a configuration that
\* was removed meanwhile; the second event, queued behind the timer before
\* the removal, is gone with the pending set.
C26_Witness ==
    /\ "A" \notin DOMAIN configurations
    /\ "A" \notin DOMAIN pendingChanges
    /\ debounceTimers["A"] = NoTimer
    /\ nEvents = 2
    /\ \E s \in 1..MaxTasks :
           /\ tasks[s].kind = "batch"
           /\ tasks[s].pc # "idle"
           /\ tasks[s].held # <<>>
           /\ Len(tasks[s].items) = 1
           /\ tasks[s].items[1].path = LocalRoot \o FileA
    /\ observed["A"].kinds[FileB] = "change"
    /\ \A s \in 1..MaxTasks : tasks[s].pc = "idle" \/ tasks[s].items[1].path # LocalRoot \o FileB

\* The event (type on rel) is one the filters of `config` turn away.
TurnedAway(config, rel, type) ==
    \/ ~config.enabled
    \/ config.excludePatterns = <<LogPattern>> /\ rel \in MatchesLog
    \/ ~config.syncHidden /\ rel = FileHidden
    \/ type = "delete" /\ ~config.syncOnDelete

\* C27: a call of updateConfiguration changes nothing but the fields it is
\* given: watchers, pending sets, timers, running executions, status,
\* lastError, lastSyncTime and filesInQueue stay; for an unknown id nothing
\* changes at all and no save is started.  When the update completes and the
\* enabled flag is what it was before the call, watcher, pending set and timer
\* stay as well.  Changed filters meet the events that arrive after the
\* call: an event is judged by the configuration as it is then, and a batch
\* takes every entry of the pending set as it finds it, also those the
\* filters would turn away now, and attempts them all.
C27_Step ==
    /\ nOps' # nOps =>
           /\ UNCHANGED <<watchers, pendingChanges, debounceTimers, tasks, store>>
           /\ DOMAIN configurations' = DOMAIN configurations
           /\ \A id \in DOMAIN configurations :
                  Shown(configurations'[id]) = Shown(configurations[id])
           /\ ops' = ops => UNCHANGED configurations /\ fired' = 0
    /\ Len(ops') < Len(ops) =>
           /\ UNCHANGED <<configurations, tasks>>
           /\ Head(ops).wasEnabled = configurations[Head(ops).id].enabled =>
                  UNCHANGED <<watchers, pendingChanges, debounceTimers>>
    /\ \A rel \in RelPaths :
           (EventStep /\ localFiles'["A"][rel] # localFiles["A"][rel]) =>
               LET type == IF localFiles'["A"][rel] = 0 THEN "delete" ELSE "change" IN
               IF TurnedAway(configurations["A"], rel, type)
               THEN UNCHANGED <<pendingChanges, debounceTimers>>
               ELSE \E k \in 1..Len(pendingChanges'["A"]) :
                        /\ pendingChanges'["A"][k].path = LocalRoot \o rel
                        /\ pendingChanges'["A"][k].type = type
    /\ \A s \in 1..MaxTasks :
           LET t == tasks[s]
               u == tasks'[s]
           IN  /\ (t.pc = "idle" /\ u.pc # "idle") => u.items = pendingChanges[u.id]
               /\ (t.pc # "idle" /\ u.pc = "idle") =>
                      finished'.attempted = ItemPaths(t.items)
               /\ (t.pc = "client" /\ u.pc # "idle" /\ u # t) =>
                      u.pc = IF t.items[t.i].type = "delete" THEN "delete" ELSE "read"

View(id) ==
    <<pendingChanges[id], debounceTimers[id], Shown(configurations[id])>>

\* The step is an event, a timer expiry, a batch or a syncNow of id.
Acts(id) ==
    \/ nEvents' # nEvents /\ localFiles'[id] # localFiles[id]
    \/ debounceTimers[id].state = "pending" /\ debounceTimers'[id].state = "fired"
    \/ \E s \in 1..MaxTasks :
           /\ tasks'[s] # tasks[s]
           /\ IF tasks[s].pc = "idle" THEN tasks'[s].id = id ELSE tasks[s].id = id

\* C28: a step of one configuration (an event, a timer expiry, a step of a
\* batch or of a syncNow) leaves the pending set, the timer, filesInQueue,
\* status, lastError and lastSyncTime of the other configuration as they were.
C28_Step ==
    \A id \in ConfigIds : Acts(id) =>
        \A other \in ConfigIds \ {id} : View(other)' = View(other)

C28_Isolation == [][C28_Step]_vars

\* A batch of B starts and finishes while a batch of A is in flight: A's batch
\* took the first event of A and is still at its first await, the second
\* event of A (version 3) came after that batch had started and waits in A's
\* queue, and the event of B (version 4) came later still; B's batch has run
\* to its end, and each configuration shows its own state.
C28_Witness ==
    /\ \E s \in Batches("A") :
           /\ tasks[s].pc = "client"
           /\ ItemPaths(tasks[s].items) = <<LocalRoot \o FileA>>
    /\ localFiles["A"][FileA] = 3
    /\ Len(pendingChanges["A"]) = 1
    /\ localFiles["B"][FileA] = 4
    /\ finished.kind = "batch" /\ finished.id = "B"
    /\ configurations["A"].status = "syncing"
    /\ configurations["B"].status = "idle"
    /\ configurations["B"].lastSyncTime # NoTime

\* The ancestors of the remote path of FileDeep below the base, root first.
Chain == <<RemoteBase \o <<"d">>, RemoteBase \o <<"d", "e">>>>
ChainSet == { Chain[k] : k \in 1..Len(Chain) }
IndexInChain(p) == CHOOSE k \in 1..Len(Chain) : Chain[k] = p

\* The entry an execution is at is a deletion.
AtDelete(t) == t.pc # "idle" /\ t.kind = "batch" /\ t.items[t.i].type = "delete"

\* The ancestor the execution was at has been found by stat, created, or
\* answered 405, when the step is over.
Settled(t) ==
    /\ t.pc \in {"stat", "mkdir"}
    /\ CurrentParent(t) \in remoteDirs'

\* What the execution in slot s does in the step, if it moves.
C29_Moves(s) ==
    LET t == tasks[s]
        u == tasks'[s]
    IN
    /\ u.pc \in {"stat", "mkdir"} => CurrentParent(u) \in ChainSet
    /\ (u.pc = "stat" /\ (t.pc # "stat" \/ t.anc # u.anc)) =>
           IF CurrentParent(u) = Chain[1]
           THEN t.pc = "client"
           ELSE /\ Settled(t)
                /\ CurrentParent(t) = Chain[IndexInChain(CurrentParent(u)) - 1]
    /\ (u.pc = "mkdir" /\ t.pc # "mkdir") =>
           /\ t.pc = "stat"
           /\ t.anc = u.anc
    /\ (u.pc = "read" /\ t.pc # "read") =>
           /\ Settled(t)
           /\ CurrentParent(t) = Chain[Len(Chain)]
    /\ (u.pc = "put" /\ t.pc # "put") =>
           /\ t.pc = "read"
           /\ ChainSet \subseteq remoteDirs
    /\ AtDelete(u) => u.pc \in {"client", "delete"}

\* C29: the ensure-chain of an upload visits the ancestors below the base
\* root first; the base gets no stat and no createDirectory; createDirectory
\* and the next stat come only after the shallower ancestor is settled;
\* putFileContents is issued only after the whole chain; a delete entry goes
\* from the client straight to deleteFile and creates no directory.
C29_Step ==
    /\ \A s \in 1..MaxTasks : tasks'[s] # tasks[s] => C29_Moves(s)
    /\ putCalls' # putCalls =>
           \E s \in 1..MaxTasks : tasks[s].pc = "read" /\ tasks'[s].pc = "put"
    /\ remoteDirs' # remoteDirs =>
           \E s \in 1..MaxTasks : tasks[s].pc = "mkdir" /\ ~AtDelete(tasks[s])

C30_SharedClient ==
    \A b \in BaseUris :
        /\ Cardinality(clients.since[b].returned) <= 1
        /\ clients.since[b].created <= 1

\* The cached handle of the base URI.
Cached == connections[ProviderBase]

\* What a step may do to the cache and to the executions of forConnection.
C31_Step ==
    /\ \A s \in 1..MaxRequests :
           LET t == requests[s]
               u == requests'[s]
           IN
           /\ (t.pc = "action" /\ u.pc = "warn") => Cached' = 0
           /\ (t.pc \in {"action", "retry"} /\ u.pc \in {t.pc, "done", "warn"}) =>
                  u.handle = t.handle
           /\ u.retries <= 1
           /\ (t.pc = "retry" /\ u # t) =>
                  /\ u.pc = "done"
                  /\ u.outcome \in {"ok", "NoPermissions"}
           /\ t.pc = "done" => u = t
    /\ auth'.configuring > auth.configuring => Cached' = 0
    /\ (Cached' # Cached /\ Cached' # 0) =>
           /\ Cached' = clients.made + 1
           /\ clients'.made = clients.made + 1

\* No configureAuthForUri is at its prompts, and the cached client was
\* created from settings that are not the stored ones.
StaleClient ==
    /\ auth.configuring = 0
    /\ Cached # 0
    /\ auth.of[Cached] # auth.version

\* C31: a 401 and a reconfiguration of the credentials leave the cache
\* without a handle until an operation creates a new one, so that after a
\* reconfiguration no client made from the earlier settings is cached; an
\* operation keeps the handle it took; after a 401 and a re-authentication
\* the operation is retried once, and a failed retry ends as NoPermissions.
C31_ClientInvalidation == []~StaleClient /\ [][C31_Step]_vars

\* C32: when stat has answered a writeFile, an existing directory ends it with
\* FileIsADirectory, an existing file without overwrite with FileExists, a
\* missing file without create with FileNotFound, and in these cases
\* putFileContents is not issued, whatever the other option is.
C32_Step ==
    \A s \in 1..MaxRequests :
        LET t == requests[s]
            u == requests'[s]
            directory == t.uri \in remoteDirs
            file      == ~directory /\ remoteFiles[t.uri] # 0
            refusal   == IF directory THEN "FileIsADirectory"
                         ELSE IF file /\ ~t.overwrite THEN "FileExists"
                         ELSE IF ~file /\ ~t.create THEN "FileNotFound"
                         ELSE "none"
        IN  (t.pc = "stat" /\ u # t /\ refusal # "none") =>
                /\ u.pc = "done"
                /\ u.outcome = refusal
                /\ u.put = 0

C32_WriteFilePreconditions == [][C32_Step]_vars

\* C33: a timer expiry starts a batch for a configuration only while the
\* configuration is enabled; after updateConfiguration set enabled to false,
\* also while its save is awaited, no batch of the configuration starts.
C33_Step ==
    \A id \in DOMAIN configurations, s \in 1..MaxTasks :
        BatchStarts(id, s) => configurations[id].enabled

C33_NoBatchWhileDisabled == [][C33_Step]_vars

\* C34: whenever a configuration has status 'error', its lastError is set,
\* also when a debounced batch and a syncNow of the configuration interleave.
C34_ErrorHasMessage ==
    \A id \in DOMAIN configurations :
        configurations[id].status = "error" => configurations[id].lastError # NoError

\* The step belongs to a full sync: syncNow is called, or an execution of
\* kind 'full' goes on.
FullSyncStep ==
    \/ nFull' # nFull
    \/ \E s \in 1..MaxTasks : tasks[s].kind = "full" /\ tasks'[s] # tasks[s]

\* C35: no step of a full sync changes the pending set, filesInQueue or the
\* debounce timer of its configuration, and the batch that starts next takes
\* every entry that was queued, whether or not the full sync uploaded the file.
C35_Step ==
    /\ FullSyncStep =>
           /\ UNCHANGED <<pendingChanges, debounceTimers>>
           /\ \A id \in DOMAIN configurations :
                  /\ id \in DOMAIN configurations'
                  /\ configurations'[id].filesInQueue = configurations[id].filesInQueue
    /\ \A id \in DOMAIN configurations, s \in 1..MaxTasks :
           BatchStarts(id, s) => tasks'[s].items = pendingChanges[id]

C35_SyncNowFrame == [][C35_Step]_vars

\* A full sync uploaded a file while an entry for it was queued; the batch
\* that followed took the entry and uploaded the file once more.
C35_Witness ==
    /\ nFull = 1
    /\ finished.kind = "batch"
    /\ finished.successCount = 1
    /\ \A s \in 1..MaxTasks : tasks[s].pc = "idle"
    /\ putCalls[RemoteBase \o FileB] = 2
    /\ configurations["A"].status = "idle"

\* B can take the step A took: the same event, the expiry of its timer, or the
\* return of the call it is waiting for.
CanFollow ==
    \/ ~BothFed
    \/ /\ debounceTimers["B"] # debounceTimers["A"]
       /\ debounceTimers["B"].state = "pending"
       /\ now >= debounceTimers["B"].deadline
    \/ /\ debounceTimers["B"] = debounceTimers["A"]
       /\ TwinTask("B").pc \in {"client", "read", "put", "size", "delete"}

\* C36: syncOnSave does not influence the engine. Of two configurations that
\* differ in syncOnSave only and are fed the same events, timer expiries and
\* remote results, the second can always take the step the first took, and
\* having taken it has the same pending set, timer, remote call and status.
C36_Step == ~Aligned => Aligned'

C37_HiddenPolicyAgrees ==
    ( /\ call.fn = "policy"
      /\ ~configurations["A"].syncHidden
      /\ ~IsExcluded(call.rel, configurations["A"].excludePatterns) )
    => call.queued = call.walked

\* The pending set of A has an entry for the file.
InPending(rel) ==
    \E k \in 1..Len(pendingChanges["A"]) : pendingChanges["A"][k].path = LocalRoot \o rel

\* A batch has issued putFileContents or deleteFile for the file.
CallIssuedFor(rel) ==
    \E s \in 1..MaxTasks :
        /\ tasks[s].kind = "batch"
        /\ tasks[s].pc \in {"put", "delete"}
        /\ tasks[s].items[tasks[s].i].path = LocalRoot \o rel

TakenByBatch(rel) ==
    \E s \in 1..MaxTasks :
        /\ tasks[s].kind = "batch"
        /\ tasks[s].pc # "idle"
        /\ tasks[s].items[tasks[s].i].path = LocalRoot \o rel

ShownSyncing ==
    "A" \in DOMAIN configurations /\ configurations["A"].status = "syncing"

\* C39: when every call returns, a status that has become 'syncing' becomes
\* 'idle' or 'error', or the configuration leaves the registry, whatever the
\* interleaving of batches, full syncs, pause and removal.
C39_SyncingEnds == ShownSyncing ~> ~ShownSyncing

\* A full sync of A has ended after A was paused while it ran, and nothing
\* is running any more.
C39_Witness ==
    /\ "A" \in DOMAIN configurations
    /\ ~configurations["A"].enabled
    /\ configurations["A"].status \in {"idle", "error"}
    /\ nFull > 0
    /\ finished.kind = "full"
    /\ \A s \in 1..MaxTasks : tasks[s].pc = "idle"

\* C40: a failed client creation is not kept in the connection cache. Once
\* an operation has ended with the error of a creation that failed without a
\* 401, the cache no longer holds that promise, and an operation never starts
\* on a cached rejection: it creates a client anew.
FailureReported(handle) ==
    /\ RejectedClient(handle)
    /\ \E s \in 1..MaxRequests : requests[s].pc = "done" /\ requests[s].handle = handle

C40_Step ==
    \A s \in 1..MaxRequests :
        (requests[s].pc = "idle" /\ requests'[s].pc # "idle"
            /\ FailureReported(connections[ProviderBase]))
        => clients'.made = clients.made + 1

C40_FailedCreationNotCached ==
    /\ []~FailureReported(connections[ProviderBase])
    /\ [][C40_Step]_vars

====
